---- MODULE Spec2Model ----
(***************************************************************************)
(* The relay's request/response correlator: createApiRoute registers a     *)
(* waiter in pendingRequests, sends the request to the Foundry client and  *)
(* arms a deadline timer; the WebSocket message handlers complete waiters; *)
(* a periodic interval cleans up old waiters.                              *)
(*                                                                         *)
(* Time is in milliseconds (the unit of Date.now()).  An HTTP response     *)
(* handle `res` is the number of the HTTP request it belongs to.           *)
(***************************************************************************)
EXTENDS Integers, Sequences, FiniteSets, TLC

\* ---------------------------------------------------------------- bounds
\* HTTP requests accepted in one behaviour.
MaxReqs == 2
\* Requests are accepted while the clock is at most this many ms.
MaxAcceptTime == 1
\* The clock takes single-millisecond steps up to this offset within a period.
MaxSubMs == 1
\* The clock stops here.
MaxTime == 40001

\* ------------------------------------------------------ program constants
DefaultTimeout == 10000
CleanupAge == 30000
CleanupInterval == 10000

\* ------------------------------------------------------------ JSON values
\* A JSON value is tagged with its kind, so that values of different kinds
\* can be compared.
JStr(s) == [k |-> "str", v |-> s]
JBool(b) == [k |-> "bool", v |-> b]
JNum(n) == [k |-> "num", v |-> n]
JObj(f) == [k |-> "obj", v |-> f]
JArr(q) == [k |-> "arr", v |-> q]
JBytes(q) == [k |-> "bytes", v |-> q]
\* A string whose characters the code looks at, as the sequence of them.
JText(q) == [k |-> "text", v |-> q]

Undefined == [k |-> "undefined"]
Null == [k |-> "null"]

\* obj[key] of a JavaScript object held as a function from keys to values.
Get(obj, key) == IF key \in DOMAIN obj THEN obj[key] ELSE Undefined

\* JavaScript truthiness of the values that occur here.
Truthy(x) ==
    CASE x.k = "undefined" -> FALSE
      [] x.k = "null" -> FALSE
      [] x.k = "nan" -> FALSE
      [] x.k = "str" -> x.v # ""
      [] x.k = "text" -> x.v # <<>>
      [] x.k = "bool" -> x.v
      [] x.k = "num" -> x.v # 0
      [] OTHER -> TRUE

SensitiveKeys == {"privateKey", "apiKey", "password"}

removeSensitiveKeys_Shallow(obj) ==
    IF obj.k = "obj" THEN JObj([key \in DOMAIN obj.v \ SensitiveKeys |-> obj.v[key]])
    ELSE obj

RECURSIVE removeSensitiveKeys(_)
removeSensitiveKeys(obj) ==
    CASE obj.k = "arr" ->
            JArr([i \in DOMAIN obj.v |-> removeSensitiveKeys(obj.v[i])])
      [] obj.k = "obj" ->
            JObj([key \in DOMAIN obj.v \ SensitiveKeys |->
                      removeSensitiveKeys(obj.v[key])])
      [] OTHER -> obj

sanitizeResponse_Identity(response) == response

sanitizeResponse(response) ==
    IF response.k \notin {"obj", "arr"} THEN response
    ELSE removeSensitiveKeys(response)

\* -------------------------------------------------------- request types
\* The members of PENDING_REQUEST_TYPES the model follows.
RequestTypes == {"roll", "download-file"}

REQUEST_TYPES_WITH_SPECIAL_RESPONSE_HANDLERS == {"actor-sheet", "download-file"}

\* The request types setupMessageHandlers registers the generic handler for.
GenericHandlerTypes == RequestTypes \ REQUEST_TYPES_WITH_SPECIAL_RESPONSE_HANDLERS

\* `${type}-result`
ResultType(type) ==
    CASE type = "roll" -> "roll-result"
      [] type = "download-file" -> "download-file-result"
      [] type = "get-sheet" -> "get-sheet-result"

\* `${config.type}_${Date.now()}`: the type has no underscore and the clock is
\* written in digits, so the string determines the pair and the pair the string.
RequestIdOf(type, ms) == [k |-> "rid", v |-> <<type, ms>>]

\* The peers that open sessions, and the client ids HTTP callers ask for.
ClientIds == {"c1", "c2"}
TargetIds == {"c1"}
Formats == {"json", "raw"}

VARIABLES
    now,              \* Date.now()
    nextCleanup,      \* when the cleanup interval is due next
    clients,          \* client ids with an open session on this relay
    nextRes,          \* number of the next HTTP request
    http,             \* res -> the response written to it, or NoResponse
    pendingRequests,  \* the Map requestId -> PendingRequest
    timers,           \* the armed setTimeout callbacks of createApiRoute
    outbox            \* messages handed to client.send with result true

\* The Foundry module in the browser of one full GM (scripts/module.js).
VARIABLES
    settings,            \* game.settings of the module
    users,               \* game.users, in the order of the collection
    mgr,                 \* the fields of the WebSocketManager instance
    sockets,             \* the WebSocket objects created so far
    sentMessages,        \* the messages the last step handed to socket.send
    recentChatMessages,  \* the stored chat messages, newest first
    recentRolls,         \* the stored rolls, newest first
    user,                \* game.user, as its place in game.users
    session,             \* the relay's client table entry of the module's clientId
    attempts,            \* reconnects scheduled since the last open or disconnect()
    scheduled            \* how many setTimeout and setInterval callbacks of the manager the browser holds

peer == <<settings, users, user, mgr, sockets, sentMessages, recentChatMessages, recentRolls, session, attempts, scheduled>>

\* The headless sessions of the relay (routes/api.ts).
VARIABLES
    apiKeyToSession,     \* apiKey -> [sessionId, lastActivity]
    browserSessions,     \* the session ids that have a browser in the map
    closedBrowsers       \* the session ids whose browser close() was called on

headless == <<apiKeyToSession, browserSessions, closedBrowsers>>

vars == <<now, nextCleanup, clients, nextRes, http, pendingRequests, timers, outbox, peer, headless>>

NoResponse == [status |-> 0]
Res == 1..MaxReqs

\* ------------------------------------------------------------ Map helpers
MapHas(m, key) == key \in DOMAIN m
MapSet(m, key, val) == [x \in DOMAIN m \cup {key} |-> IF x = key THEN val ELSE m[x]]
MapDelete(m, key) == [x \in DOMAIN m \ {key} |-> m[x]]

\* ---------------------------------------------------------- safeResponse
headersSent(h, res) == h[res].status # 0

\* res.json(data) writes JSON.stringify(data): a key whose value is undefined
\* is left out.
RECURSIVE jsonBody(_)
jsonBody(data) ==
    CASE data.k = "arr" -> JArr([i \in DOMAIN data.v |-> jsonBody(data.v[i])])
      [] data.k = "obj" ->
            JObj([key \in {x \in DOMAIN data.v : data.v[x] # Undefined} |->
                      jsonBody(data.v[key])])
      [] OTHER -> data

\* res.status(statusCode).json(sanitizeResponse(data)), unless headers were sent.
safeResponse(h, res, statusCode, data) ==
    IF headersSent(h, res) THEN h
    ELSE [h EXCEPT ![res] = [status |-> statusCode, headers |-> <<>>,
                             body |-> jsonBody(sanitizeResponse(data))]]

ErrorBody(msg) == JObj([error |-> JStr(msg)])

\* ------------------------------------------- the module's settings and users
\* The sizes of the two stores of the module.
MAX_ROLLS_STORED == 20
MAX_CHAT_MESSAGES_STORED == 100

\* The registered defaults of the two reconnect settings and of the setting
\* "Max Chat Messages Stored".
DefaultSettings ==
    [reconnectMaxAttempts |-> 20, reconnectBaseDelay |-> 1000,
     maxChatMessagesStored |-> MAX_CHAT_MESSAGES_STORED]

\* The values a world sets them to.
SettingsChoices ==
    { [reconnectMaxAttempts |-> m, reconnectBaseDelay |-> d,
       maxChatMessagesStored |-> MAX_CHAT_MESSAGES_STORED] : m \in {1, 2}, d \in {1000, 16000} }

\* The users of the world: a user id is the sequence of its characters,
\* role 4 is a full GM, role 3 an assistant GM.
GameUsers ==
    << [id |-> <<"a", "B">>, role |-> 4],
       [id |-> <<"B", "1">>, role |-> 4],
       [id |-> <<"1", "1">>, role |-> 3],
       [id |-> <<"a", "b">>, role |-> 4] >>

\* game.users with the given users active.
UsersWith(active) ==
    [i \in DOMAIN GameUsers |->
        [id |-> GameUsers[i].id, role |-> GameUsers[i].role, active |-> i \in active]]

\* user.isGM
isGM(u) == u.role >= 3

\* String.prototype.localeCompare on ids of digits and letters: the strings
\* are compared letter by letter without regard to case (digits before
\* letters), and strings equal that far by case, lower case first.
Letter(ch) ==
    CASE ch = "1" -> 1
      [] ch \in {"a", "A"} -> 2
      [] ch \in {"b", "B"} -> 3

UpperCase(ch) == IF ch \in {"A", "B"} THEN 1 ELSE 0

RECURSIVE Lexicographic(_, _)
Lexicographic(a, b) ==
    IF a = <<>> /\ b = <<>> THEN 0
    ELSE IF a = <<>> THEN -1
    ELSE IF b = <<>> THEN 1
    ELSE IF Head(a) < Head(b) THEN -1
    ELSE IF Head(a) > Head(b) THEN 1
    ELSE Lexicographic(Tail(a), Tail(b))

localeCompare(a, b) ==
    LET letters == Lexicographic([i \in DOMAIN a |-> Letter(a[i])],
                                 [i \in DOMAIN b |-> Letter(b[i])])
    IN IF letters # 0 THEN letters
       ELSE Lexicographic([i \in DOMAIN a |-> UpperCase(a[i])],
                          [i \in DOMAIN b |-> UpperCase(b[i])])

\* x put into the sorted sequence q, behind the elements that compare equal.
RECURSIVE Inserted(_, _)
Inserted(x, q) ==
    IF q = <<>> THEN <<x>>
    ELSE IF localeCompare(x.id, Head(q).id) < 0 THEN <<x>> \o q
    ELSE <<Head(q)>> \o Inserted(x, Tail(q))

sortedGMs_Unsorted(activeGMs) == activeGMs

\* [...activeGMs].sort((a, b) => (a.id || "").localeCompare(b.id || ""))
RECURSIVE sortedGMs(_)
sortedGMs(activeGMs) ==
    IF activeGMs = <<>> THEN <<>>
    ELSE Inserted(activeGMs[Len(activeGMs)], sortedGMs(SubSeq(activeGMs, 1, Len(activeGMs) - 1)))

isActiveGM(u) == u.role = 4 /\ u.active

\* checkIfPrimaryGM() in the browser of game.user = gameUser.
checkIfPrimaryGM(gameUser, gameUsers) ==
    IF ~isGM(gameUser) \/ gameUser.role # 4 THEN FALSE
    ELSE LET activeGMs == SelectSeq(gameUsers, isActiveGM)
         IN IF Len(activeGMs) = 0 THEN FALSE
            ELSE sortedGMs(activeGMs)[1].id = gameUser.id

\* ------------------------------------------------ the WebSocketManager
\* this.socket = null and this.reconnectTimer = null
NoSocket == 0
NoTimer == -1

\* The module of user number me after the WebSocketManager constructor.
Constructed(s, me, active) ==
    /\ settings = s
    /\ users = UsersWith(active)
    /\ user = me
    /\ mgr = [socket |-> NoSocket, reconnectTimer |-> NoTimer, reconnectAttempts |-> 0,
              pingInterval |-> FALSE, isConnecting |-> FALSE,
              isPrimaryGM |-> checkIfPrimaryGM(UsersWith(active)[me], UsersWith(active))]
    /\ sockets = <<>>
    /\ sentMessages = <<>>
    /\ recentChatMessages = <<>>
    /\ recentRolls = <<>>
    /\ session = NoSocket
    /\ attempts = 0
    /\ scheduled = [timeouts |-> 0, intervals |-> 0]

\* The relay after start.
RelayInit ==
    /\ now = 0
    /\ nextCleanup = CleanupInterval
    /\ clients = {}
    /\ nextRes = 1
    /\ http = [r \in Res |-> NoResponse]
    /\ pendingRequests = <<>>
    /\ timers = {}
    /\ outbox = <<>>
    /\ apiKeyToSession = <<>>
    /\ browserSessions = {}
    /\ closedBrowsers = {}

Init ==
    /\ RelayInit
    /\ Constructed(DefaultSettings, 1, {1})

\* --------------------------------------------- sessions (ClientManager)
\* ClientManager.getClient(clientId): the local session of clientId, or null.
NoClient == "null"
getClient(clientId) == IF clientId \in clients THEN clientId ELSE NoClient

clientMissing_Never(client) == FALSE

\* if (!client)
clientMissing(client) == client = NoClient

Connect(c) ==
    /\ c \notin clients
    /\ clients' = clients \cup {c}
    /\ UNCHANGED <<now, nextCleanup, nextRes, http, pendingRequests, timers, outbox, peer, headless>>

Disconnect(c) ==
    /\ c \in clients
    /\ clients' = clients \ {c}
    /\ UNCHANGED <<now, nextCleanup, nextRes, http, pendingRequests, timers, outbox, peer, headless>>

\* -------------------------------------------------------- createApiRoute
\* What the parameter stages of the handler end in: "ok", or the stage that
\* answers 400.
ValidationOutcomes == {"ok", "type", "custom", "required"}
ValidationBody(v) ==
    CASE v = "type" -> ErrorBody("must be a valid value")
      [] v = "custom" -> ErrorBody("validateParams")
      [] v = "required" -> ErrorBody("is required")

\* The routes: config.type and config.timeout, 0 when the route sets none.
RouteConfigs ==
    { [type |-> "roll", timeout |-> 0],
      [type |-> "download-file", timeout |-> 40000] }

\* The sheet route: its type, and no timeout of its own.
SheetConfigs == { [type |-> "get-sheet", timeout |-> 0] }

SheetUuid == JStr("Actor.a")

\* What config.buildPendingRequest adds to the waiter: the format hint of a
\* download, the uuid and the display hints of a sheet, nothing otherwise.
buildPendingRequest(type) ==
    CASE type = "download-file" ->
            { [format |-> f] : f \in {Undefined} \cup {JStr(x) : x \in Formats} }
      [] type = "get-sheet" ->
            { [uuid |-> SheetUuid, format |-> f, activeTab |-> tab,
               initialScale |-> Null, darkMode |-> JBool(FALSE)] :
                f \in {Undefined, JStr("json")}, tab \in {Null, JNum(1)} }
      [] OTHER -> { [format |-> Undefined] }

\* pending.uuid and the like: a property the waiter does not have is undefined.
Field(request, name) == IF name \in DOMAIN request THEN request[name] ELSE Undefined

\* What happens from building the payload to client.send: send returns true,
\* returns false, or one of the two throws.
SendOutcomes == {"true", "false", "throw"}

timeoutDuration(config) == IF config.timeout # 0 THEN config.timeout ELSE DefaultTimeout

PendingRequestData(res, config, clientId, extra) ==
    [res |-> res, type |-> config.type, clientId |-> clientId, timestamp |-> now]
      @@ extra

validationFailed_Never(validation) == FALSE

\* if (validationError), if (validationResult), a required parameter absent
validationFailed(validation) == validation # "ok"

createApiRoute(config, clientId, validation, extra, sent) ==
    LET res == nextRes
        requestId == RequestIdOf(config.type, now)
        registered == MapSet(pendingRequests, requestId,
                             PendingRequestData(res, config, clientId, extra))
    IN
    /\ nextRes <= MaxReqs
    /\ now <= MaxAcceptTime
    /\ nextRes' = nextRes + 1
    /\ UNCHANGED <<now, nextCleanup, clients, peer, headless>>
    /\ IF validationFailed(validation) THEN
            /\ http' = safeResponse(http, res, 400, ValidationBody(validation))
            /\ UNCHANGED <<pendingRequests, timers, outbox>>
       ELSE IF clientMissing(getClient(clientId)) THEN
            /\ http' = safeResponse(http, res, 404, ErrorBody("Invalid client ID"))
            /\ UNCHANGED <<pendingRequests, timers, outbox>>
       ELSE IF sent = "throw" THEN
            /\ pendingRequests' = registered
            /\ http' = safeResponse(http, res, 500,
                                    ErrorBody("Internal server error during request"))
            /\ UNCHANGED <<timers, outbox>>
       ELSE IF sent = "false" THEN
            /\ pendingRequests' = MapDelete(registered, requestId)
            /\ http' = safeResponse(http, res, 500,
                                    ErrorBody("Failed to send request to Foundry client"))
            /\ UNCHANGED <<timers, outbox>>
       ELSE
            /\ pendingRequests' = registered
            /\ outbox' = Append(outbox, [to |-> clientId, type |-> config.type,
                                         requestId |-> requestId])
            /\ timers' = timers \cup {[requestId |-> requestId, res |-> res,
                                       due |-> now + timeoutDuration(config)]}
            /\ UNCHANGED http

\* The setTimeout callback of createApiRoute.
TimeoutFires(t) ==
    /\ t \in timers
    /\ now >= t.due
    /\ timers' = timers \ {t}
    /\ IF MapHas(pendingRequests, t.requestId) THEN
            /\ pendingRequests' = MapDelete(pendingRequests, t.requestId)
            /\ http' = safeResponse(http, t.res, 408, ErrorBody("Request timed out"))
       ELSE UNCHANGED <<pendingRequests, http>>
    /\ UNCHANGED <<now, nextCleanup, clients, nextRes, outbox, peer, headless>>

\* ------------------------------------------------- messages from peers
\* A message is the parsed JSON object: a function from its keys to values.
Opt(key, val) == IF val = Undefined THEN <<>> ELSE key :> val

Payloads ==
    { JNum(17),
      JObj([name |-> JStr("x"), apiKey |-> JStr("k"),
            items |-> JArr(<<JObj([id |-> JNum(1), password |-> JStr("p")])>>)]) }

RequestIds ==
    {Undefined} \cup {RequestIdOf(type, ms) : type \in RequestTypes, ms \in 0..MaxAcceptTime}

Errors == {Undefined, JStr("boom")}

\* "data:...;base64,QUI=" with the part before the comma cut down to "d".
DataUrl == JText(<<"d", ",", "Q", "U", "I", "=">>)

\* The messages of the generic handlers that carry rid: a result carries a
\* payload, a failure an error.
GenericMessagesOf(rid) ==
    { ("type" :> JStr(ResultType(type))) @@ Opt("requestId", rid) @@ ("payload" :> p) :
        type \in GenericHandlerTypes, p \in Payloads }
    \cup
    { ("type" :> JStr(ResultType(type))) @@ Opt("requestId", rid) @@ ("error" :> err) :
        type \in GenericHandlerTypes, err \in {JStr("boom"), JStr("")} }

GenericMessages == UNION {GenericMessagesOf(rid) : rid \in RequestIds}

DownloadMessagesOf(rid) ==
    { ("type" :> JStr("download-file-result")) @@ Opt("requestId", rid)
        @@ Opt("error", err) @@ Opt("fileData", fd)
        @@ ("filename" :> JStr("x.png")) @@ ("mimeType" :> JStr("image/png")) :
        err \in Errors, fd \in {Undefined, DataUrl} }

DownloadMessages == UNION {DownloadMessagesOf(rid) : rid \in RequestIds}

\* ------------------------------------------------- what every handler does
\* if (data.requestId && pendingRequests.has(data.requestId))
hasPending(data) ==
    Truthy(Get(data, "requestId")) /\ MapHas(pendingRequests, data["requestId"])

Discard_DropsWaiters ==
    /\ pendingRequests' = <<>>
    /\ UNCHANGED http

\* The handler returns at once: nothing is written and no waiter is touched.
Discard == UNCHANGED <<http, pendingRequests>>

\* ---------------------------------------------------- the generic handler
GenericResponse_SenderId(client, data, pending) ==
    [key \in DOMAIN data \ {"requestId"} |-> data[key]]
      @@ [requestId |-> data["requestId"], clientId |-> JStr(client)]

\* { requestId, clientId } and then every key of data but requestId.
GenericResponse(client, data, pending) ==
    [key \in DOMAIN data \ {"requestId"} |-> data[key]]
      @@ [requestId |-> data["requestId"], clientId |-> JStr(pending.clientId)]

GenericStatus_ErrorKey(response) == IF "error" \in DOMAIN response THEN 400 ELSE 200

\* if (response.error) 400 else 200
GenericStatus(response) == IF Truthy(Get(response, "error")) THEN 400 ELSE 200

\* The handler of `${type}-result`.
GenericResult(type, client, data) ==
    /\ client \in clients
    /\ data["type"] = JStr(ResultType(type))
    /\ IF hasPending(data) THEN
          LET pending == pendingRequests[data["requestId"]]
              response == GenericResponse(client, data, pending)
          IN /\ http' = safeResponse(http, pending.res, GenericStatus(response),
                                     JObj(response))
             /\ pendingRequests' = MapDelete(pendingRequests, data["requestId"])
       ELSE Discard
    /\ UNCHANGED <<now, nextCleanup, clients, nextRes, timers, outbox, peer, headless>>

\* ------------------------------------------- the download-file-result handler
\* fileData.split(',')[1]
RECURSIVE SplitComma(_)
SplitComma(q) ==
    IF \A i \in DOMAIN q : q[i] # ","
    THEN <<q>>
    ELSE LET i == CHOOSE j \in DOMAIN q : q[j] = "," /\ \A l \in 1..(j - 1) : q[l] # ","
         IN <<SubSeq(q, 1, i - 1)>> \o SplitComma(SubSeq(q, i + 1, Len(q)))

Base64Index(ch) ==
    CASE ch = "A" -> 0 [] ch = "B" -> 1 [] ch = "C" -> 2 [] ch = "E" -> 4
      [] ch = "I" -> 8 [] ch = "Q" -> 16 [] ch = "U" -> 20 [] ch = "g" -> 32

RECURSIVE Base64Value(_)
Base64Value(q) ==
    IF q = <<>> THEN 0
    ELSE Base64Value(SubSeq(q, 1, Len(q) - 1)) * 64 + Base64Index(q[Len(q)])

RECURSIVE BytesOf(_, _)
BytesOf(value, n) ==
    IF n = 0 THEN <<>> ELSE Append(BytesOf(value \div 256, n - 1), value % 256)

\* Buffer.from(text, 'base64'): the bytes of the sextets before the padding.
Base64Decode(q) ==
    LET digits == SelectSeq(q, LAMBDA ch : ch # "=")
        bits == 6 * Len(digits)
    IN BytesOf(Base64Value(digits) \div (2 ^ (bits % 8)), bits \div 8)

\* The bytes of a data URL; undefined when the code throws on it.
FileBytes(fileData) ==
    IF fileData.k # "text" \/ Len(SplitComma(fileData.v)) < 2 THEN Undefined
    ELSE JBytes(Base64Decode(SplitComma(fileData.v)[2]))

\* `attachment; filename="${data.filename}"`
Attachment(filename) == [k |-> "attachment", filename |-> filename]

downloadFormat_NoDefault(request) == request.format

\* request.format || 'binary'
downloadFormat(request) ==
    IF Truthy(request.format) THEN request.format ELSE JStr("binary")

DownloadFileResult(client, data) ==
    /\ client \in clients
    /\ data["type"] = JStr("download-file-result")
    /\ IF ~hasPending(data) THEN Discard ELSE
       LET request == pendingRequests[data["requestId"]]
           format == downloadFormat(request)
           buffer == FileBytes(Get(data, "fileData"))
       IN /\ pendingRequests' = MapDelete(pendingRequests, data["requestId"])
          /\ IF Truthy(Get(data, "error")) THEN
                http' = safeResponse(http, request.res, 500,
                           JObj([clientId |-> JStr(client),
                                 requestId |-> data["requestId"],
                                 error |-> data["error"]]))
             ELSE IF buffer = Undefined THEN
                \* the split or Buffer.from throws
                UNCHANGED http
             ELSE IF format \in {JStr("binary"), JStr("raw")} THEN
                \* setHeader throws when the headers were sent
                IF headersSent(http, request.res) THEN UNCHANGED http
                ELSE http' = [http EXCEPT ![request.res] =
                        [status |-> 200,
                         headers |-> [ContentType |->
                                         IF Truthy(Get(data, "mimeType")) THEN data["mimeType"]
                                         ELSE JStr("application/octet-stream"),
                                      ContentDisposition |-> Attachment(Get(data, "filename")),
                                      ContentLength |-> Len(buffer.v)],
                         body |-> buffer]]
             ELSE
                http' = safeResponse(http, request.res, 200,
                           JObj([clientId |-> JStr(client),
                                 requestId |-> data["requestId"],
                                 success |-> JBool(TRUE),
                                 path |-> Get(data, "path"),
                                 filename |-> Get(data, "filename"),
                                 mimeType |-> Get(data, "mimeType"),
                                 fileData |-> Get(data, "fileData"),
                                 size |-> JNum(Len(buffer.v))]))
    /\ UNCHANGED <<now, nextCleanup, clients, nextRes, timers, outbox, peer, headless>>

\* ------------------------------------------- the get-sheet-response handler
\* a || b
Or(a, b) == IF Truthy(a) THEN a ELSE b

\* a && a.key
AndGet(a, key) ==
    IF ~Truthy(a) THEN a
    ELSE IF a.k = "obj" THEN Get(a.v, key)
    ELSE Undefined

NaN == [k |-> "nan"]

\* Number(x) of a number or of undefined
Number(x) == IF x.k = "num" THEN x ELSE NaN

\* data.uuid || (data.data && data.data.uuid)
responseUuid(data) == Or(Get(data, "uuid"), AndGet(Get(data, "data"), "uuid"))

\* data.error || (data.data && data.data.error)
sheetError(data) == Or(Get(data, "error"), AndGet(Get(data, "data"), "error"))

\* data.html || (data.data && data.data.html) || '', and the same of css
sheetPart(data, key) ==
    Or(Or(Get(data, key), AndGet(Get(data, "data"), key)), JStr(""))

wantsJson_Never(pending) == FALSE

\* pending.format === 'json'
wantsJson(pending) == Field(pending, "format") = JStr("json")

\* pending.activeTab !== null ? Number(pending.activeTab) : null
activeTabIndex(pending) ==
    IF Field(pending, "activeTab") # Null THEN Number(Field(pending, "activeTab"))
    ELSE Null

\* What the virtual DOM gives back: the body with the tab of that index
\* made active, which is the empty string when the body is empty.
Activated(html, index) ==
    IF html = JStr("") THEN html ELSE [k |-> "dom", v |-> <<html, index>>]

\* What building the virtual DOM and activating the tab ends in.
DomOutcomes == {"ok", "throw"}

\* The HTML after the tab pre-processing.
sheetHtml(pending, data, dom) ==
    LET html == sheetPart(data, "html")
        index == activeTabIndex(pending)
    IN IF index # Null /\ index # NaN /\ dom = "ok"
       THEN Or(Activated(html, index), html)
       ELSE html

\* The document the template collaborator builds from its arguments.
returnHtmlTemplate(uuid, html, css, systemId, darkMode, interactive, activeTab, initialScale) ==
    [k |-> "html",
     v |-> [uuid |-> uuid, html |-> html, css |-> css, systemId |-> systemId,
            darkMode |-> darkMode, interactive |-> interactive,
            activeTab |-> activeTab, initialScale |-> initialScale]]

fullHtml(pending, data, dom) ==
    LET initialScale == Or(Field(pending, "initialScale"), Null)
        index == activeTabIndex(pending)
    IN returnHtmlTemplate(responseUuid(data), sheetHtml(pending, data, dom),
                          sheetPart(data, "css"), JStr("unknown"),
                          Or(Field(pending, "darkMode"), JBool(FALSE)),
                          JBool(initialScale = Null /\ index = Null),
                          Or(index, JNum(0)), Or(initialScale, JNum(0)))

GetSheetResponse(client, data, dom) ==
    /\ client \in clients
    /\ data["type"] = JStr("get-sheet-response")
    /\ IF ~hasPending(data) THEN Discard ELSE
       LET pending == pendingRequests[data["requestId"]]
           removed == MapDelete(pendingRequests, data["requestId"])
       IN IF ~(pending.type = "get-sheet" /\ Field(pending, "uuid") = responseUuid(data))
          THEN Discard
          ELSE IF Truthy(sheetError(data)) THEN
             /\ http' = safeResponse(http, pending.res, 404,
                           JObj([requestId |-> data["requestId"],
                                 clientId |-> JStr(pending.clientId),
                                 uuid |-> Field(pending, "uuid"),
                                 error |-> Or(sheetError(data), JStr("Unknown error"))]))
             /\ pendingRequests' = removed
          ELSE IF wantsJson(pending) THEN
             /\ http' = safeResponse(http, pending.res, 200,
                           JObj([requestId |-> data["requestId"],
                                 clientId |-> JStr(pending.clientId),
                                 uuid |-> Field(pending, "uuid"),
                                 html |-> sheetPart(data, "html"),
                                 css |-> sheetPart(data, "css")]))
             /\ pendingRequests' = removed
          ELSE IF headersSent(http, pending.res) THEN
             \* res.send throws and the catch of the handler logs it
             UNCHANGED <<http, pendingRequests>>
          ELSE
             /\ http' = [http EXCEPT ![pending.res] =
                           [status |-> 200, headers |-> <<>>,
                            body |-> fullHtml(pending, data, dom)]]
             /\ pendingRequests' = removed
    /\ UNCHANGED <<now, nextCleanup, clients, nextRes, timers, outbox, peer, headless>>

SheetRequestIds ==
    {Undefined} \cup {RequestIdOf("get-sheet", ms) : ms \in 0..MaxAcceptTime}

\* What a get-sheet-response carries besides its type and requestId.
SheetContents ==
    { ("uuid" :> SheetUuid) @@ ("html" :> JStr("<h>")) @@ ("css" :> JStr("c")),
      "data" :> JObj([uuid |-> SheetUuid, html |-> JStr("<h>"), css |-> JStr("c")]),
      ("uuid" :> JStr("Actor.b")) @@ ("html" :> JStr("<h>")) @@ ("css" :> JStr("c")),
      ("uuid" :> SheetUuid) @@ ("error" :> JStr("nope")),
      "data" :> JObj([uuid |-> SheetUuid, error |-> JStr("nope")]),
      "uuid" :> SheetUuid }

SheetMessagesOf(rid) ==
    { ("type" :> JStr("get-sheet-response")) @@ Opt("requestId", rid) @@ content :
        content \in SheetContents }

SheetMessages == UNION {SheetMessagesOf(rid) : rid \in SheetRequestIds}

\* The generic handler setupMessageHandlers registers for the sheet route's
\* type: the list of special types names 'actor-sheet', so 'get-sheet' is
\* not skipped.
SheetHandlerTypes == {"get-sheet"} \ REQUEST_TYPES_WITH_SPECIAL_RESPONSE_HANDLERS

\* The messages of type get-sheet-result that carry rid.
SheetResultMessagesOf(rid) ==
    { ("type" :> JStr("get-sheet-result")) @@ Opt("requestId", rid) @@ ("payload" :> JNum(17)) }

SheetResultMessages == UNION {SheetResultMessagesOf(rid) : rid \in SheetRequestIds}

\* ------------------------------------------------- the messages that arrive
\* A handler looks at nothing but the requestId of a message that names no
\* waiter, so of those messages the plain ones arrive: a generic result with
\* a number as payload, a download result with a file and no error.
PlainGeneric == {m \in GenericMessages : Get(m, "payload") = JNum(17)}
PlainDownload ==
    {m \in DownloadMessages : "error" \notin DOMAIN m /\ "fileData" \in DOMAIN m}

PlainSheet == {m \in SheetMessages : Get(m, "html") = JStr("<h>")}

ArrivingSheet == {m \in SheetMessages : hasPending(m) \/ m \in PlainSheet}
ArrivingGeneric == {m \in GenericMessages : hasPending(m) \/ m \in PlainGeneric}
ArrivingDownload == {m \in DownloadMessages : hasPending(m) \/ m \in PlainDownload}

\* ------------------------------------------------ pending request cleanup
CleanupExpired_Never(request) == FALSE

CleanupExpired(request) == now - request.timestamp > CleanupAge

Cleanup ==
    /\ now >= nextCleanup
    /\ nextCleanup' = now + CleanupInterval
    /\ pendingRequests' =
          [id \in {x \in DOMAIN pendingRequests : ~CleanupExpired(pendingRequests[x])}
              |-> pendingRequests[id]]
    /\ UNCHANGED <<now, clients, nextRes, http, timers, outbox, peer, headless>>

\* ------------------------------------------------------------- the clock
\* Timers are served before the clock moves on: a due callback runs at most
\* one clock step late.
NothingDue == nextCleanup > now /\ \A t \in timers : t.due > now

TickSteps == {1, CleanupInterval}

Tick(d) ==
    /\ NothingDue
    /\ now + d <= MaxTime
    /\ d = 1 => (now + 1) % CleanupInterval <= MaxSubMs
    /\ now' = now + d
    /\ UNCHANGED <<nextCleanup, clients, nextRes, http, pendingRequests, timers, outbox, peer, headless>>

Next ==
    \/ \E d \in TickSteps : Tick(d)
    \/ \E c \in ClientIds : Connect(c)
    \/ \E c \in ClientIds : Disconnect(c)
    \/ \E config \in RouteConfigs, clientId \in TargetIds,
          validation \in ValidationOutcomes, sent \in SendOutcomes :
          \E extra \in buildPendingRequest(config.type) :
             createApiRoute(config, clientId, validation, extra, sent)
    \/ \E t \in timers : TimeoutFires(t)
    \/ \E type \in GenericHandlerTypes, client \in ClientIds, data \in ArrivingGeneric :
          GenericResult(type, client, data)
    \/ \E client \in ClientIds, data \in ArrivingDownload : DownloadFileResult(client, data)
    \/ Cleanup

Spec == Init /\ [][Next]_vars

\* The relay with peers that never send a message.
NextSilent ==
    \/ \E d \in TickSteps : Tick(d)
    \/ \E c \in ClientIds : Connect(c)
    \/ \E c \in ClientIds : Disconnect(c)
    \/ \E config \in RouteConfigs, clientId \in TargetIds,
          validation \in ValidationOutcomes, sent \in SendOutcomes :
          \E extra \in buildPendingRequest(config.type) :
             createApiRoute(config, clientId, validation, extra, sent)
    \/ \E t \in timers : TimeoutFires(t)
    \/ Cleanup

SilentPeerSpec == Init /\ [][NextSilent]_vars

\* The relay serving the sheet route, with all its message handlers.
NextSheet ==
    \/ \E d \in TickSteps : Tick(d)
    \/ \E c \in ClientIds : Connect(c)
    \/ \E c \in ClientIds : Disconnect(c)
    \/ \E config \in SheetConfigs, clientId \in TargetIds,
          validation \in ValidationOutcomes, sent \in SendOutcomes :
          \E extra \in buildPendingRequest(config.type) :
             createApiRoute(config, clientId, validation, extra, sent)
    \/ \E t \in timers : TimeoutFires(t)
    \/ \E client \in ClientIds, data \in ArrivingSheet, dom \in DomOutcomes :
          GetSheetResponse(client, data, dom)
    \/ \E type \in SheetHandlerTypes, client \in ClientIds, data \in SheetResultMessages :
          GenericResult(type, client, data)
    \/ \E type \in GenericHandlerTypes, client \in ClientIds, data \in ArrivingGeneric :
          GenericResult(type, client, data)
    \/ \E client \in ClientIds, data \in ArrivingDownload : DownloadFileResult(client, data)
    \/ Cleanup

SheetSpec == Init /\ [][NextSheet]_vars

\* The same relay in a process that keeps running: time passes, and the
\* event loop runs the callback of every timeout and of the cleanup interval
\* that is due.
LiveSpec ==
    /\ SheetSpec
    /\ WF_vars(\E d \in TickSteps : Tick(d))
    /\ WF_vars(\E t \in timers : TimeoutFires(t))
    /\ WF_vars(Cleanup)

\* ------------------------------------------- the routes and their parameters
\* A ParamDef: from is the list of the request parts to look in.
ParamDef(name, from, type) == [name |-> name, from |-> from, type |-> type]

\* POST /roll
RollRoute ==
    [config |-> [type |-> "roll", timeout |-> 0],
     requiredParams |-> << ParamDef("clientId", <<"query">>, "string"),
                           ParamDef("formula", <<"body">>, "string") >>,
     optionalParams |-> << ParamDef("flavor", <<"body">>, "string"),
                           ParamDef("createChatMessage", <<"body">>, "boolean"),
                           ParamDef("speaker", <<"body">>, "string"),
                           ParamDef("whisper", <<"body">>, "array") >>]

\* POST /chat
ChatRoute ==
    [config |-> [type |-> "chat", timeout |-> 0],
     requiredParams |-> << ParamDef("clientId", <<"body">>, "string"),
                           ParamDef("message", <<"body">>, "object"),
                           ParamDef("message.message", <<"body">>, "string"),
                           ParamDef("message.speaker", <<"body">>, "string"),
                           ParamDef("message.type", <<"body">>, "string") >>,
     optionalParams |-> << ParamDef("message.timestamp", <<"body">>, "number"),
                           ParamDef("message.whisper", <<"body">>, "boolean"),
                           ParamDef("message.blind", <<"body">>, "boolean"),
                           ParamDef("message.roll", <<"body">>, "object") >>]

Routes == {RollRoute, ChatRoute}

allParamDefs(route) == route.requiredParams \o route.optionalParams

\* req[source]?.[name]
ReqGet(req, source, name) ==
    IF req[source].k # "obj" THEN Undefined ELSE Get(req[source].v, name)

\* The value of a parameter: that of the first source that defines it.
RECURSIVE firstDefined(_, _, _)
firstDefined(req, sources, name) ==
    IF sources = <<>> THEN Undefined
    ELSE IF Len(sources) = 1 \/ ReqGet(req, Head(sources), name) # Undefined
         THEN ReqGet(req, Head(sources), name)
         ELSE firstDefined(req, Tail(sources), name)

extractParams(route, req) ==
    [name \in {allParamDefs(route)[i].name : i \in DOMAIN allParamDefs(route)} |->
        LET p == CHOOSE q \in {allParamDefs(route)[i] : i \in DOMAIN allParamDefs(route)} :
                    q.name = name
        IN firstDefined(req, p.from, name)]

\* parseFloat of the strings that occur
parseFloat(value) ==
    IF value = JStr("5") THEN JNum(5) ELSE NaN

\* The type validation of one parameter fails.
typeError(p, value) ==
    CASE p.type = "number" -> value.k # "num" /\ parseFloat(value) = NaN
      [] p.type = "boolean" ->
            value.k # "bool" /\ value \notin {JStr("true"), JStr("false")}
      [] p.type = "array" -> value.k # "arr" /\ value # JStr("[]")
      [] p.type = "string" -> value.k # "str"
      [] p.type = "object" -> value.k # "obj"

\* What the parameter stages end in: the routes here have no validateParams.
validateParams(route, params) ==
    IF \E i \in DOMAIN allParamDefs(route) :
          LET p == allParamDefs(route)[i]
          IN params[p.name] \notin {Undefined, Null} /\ typeError(p, params[p.name])
    THEN "type"
    ELSE IF \E i \in DOMAIN route.requiredParams :
               params[route.requiredParams[i].name] \in {Undefined, Null}
         THEN "required"
         ELSE "ok"

\* params.clientId as string
clientIdOf(params) ==
    IF params["clientId"].k = "str" THEN params["clientId"].v ELSE NoClient

\* The HTTP requests: the body is the parsed JSON or undefined, the query
\* the parsed query string.
RollBody == ("formula" :> JStr("1d20"))
ChatMessage == JObj([message |-> JStr("hi"), speaker |-> JStr("GM"), type |-> JStr("ic")])
ChatBodyNested == ("message" :> ChatMessage)
ChatBodyFlat ==
    ("message" :> ChatMessage) @@ ("message.message" :> JStr("hi"))
      @@ ("message.speaker" :> JStr("GM")) @@ ("message.type" :> JStr("ic"))

ClientIdPart == {<<>>} \cup {"clientId" :> JStr(c) : c \in TargetIds}

Requests ==
    { [body |-> JObj(b @@ inBody), query |-> JObj(inQuery)] :
        b \in {RollBody, ChatBodyNested, ChatBodyFlat},
        inBody \in ClientIdPart, inQuery \in ClientIdPart }
    \cup { [body |-> Undefined, query |-> JObj(inQuery)] : inQuery \in ClientIdPart }

\* The handler createApiRoute(config) returns, run on a request.
routeHandler(route, req, sent) ==
    LET params == extractParams(route, req)
    IN \E extra \in buildPendingRequest(route.config.type) :
          createApiRoute(route.config, clientIdOf(params),
                         validateParams(route, params), extra, sent)

NextRoutes ==
    \/ \E d \in TickSteps : Tick(d)
    \/ \E c \in ClientIds : Connect(c)
    \/ \E c \in ClientIds : Disconnect(c)
    \/ \E route \in Routes, req \in Requests, sent \in SendOutcomes :
          routeHandler(route, req, sent)
    \/ \E t \in timers : TimeoutFires(t)
    \/ Cleanup

RoutesSpec == Init /\ [][NextRoutes]_vars

\* ------------------------------------------------- safeResponse on its own
\* The data safeResponse is called with.
Bodies ==
    { JNum(17), JStr("s"), Null, JBool(TRUE),
      JObj([a |-> JNum(1)]),
      JObj([name |-> JStr("x"), apiKey |-> JStr("k")]),
      JObj([apiKey |-> JStr("k")]),
      JObj([o |-> JObj([password |-> JStr("p"), id |-> JNum(1)]), b |-> JNum(2)]),
      JArr(<<JNum(1), JNum(2)>>),
      JArr(<<JNum(2), JNum(1)>>),
      JArr(<<JObj([privateKey |-> JStr("pk"), id |-> JNum(1)]), JNum(2)>>),
      JObj([items |-> JArr(<<JObj([id |-> JNum(1), password |-> JStr("p")]),
                            JObj([apiKey |-> JObj([id |-> JNum(2)])]),
                            JArr(<<JObj([privateKey |-> JStr("pk")])>>)>>)]),
      JObj([items |-> JArr(<<JObj([id |-> JNum(1)])>>)]) }

StatusCodes == {200, 400}

\* A call safeResponse(res, statusCode, data).
SafeResponseCall(res, statusCode, data) ==
    /\ http' = safeResponse(http, res, statusCode, data)
    /\ UNCHANGED <<now, nextCleanup, clients, nextRes, pendingRequests, timers, outbox, peer, headless>>

NextSanitize ==
    \E res \in Res, statusCode \in StatusCodes, data \in Bodies :
       SafeResponseCall(res, statusCode, data)

SanitizeSpec == Init /\ [][NextSanitize]_vars

\* ------------------------------------------------ the headless sessions
HEADLESS_SESSION_TIMEOUT == 600000
ApiKeys == {"k1", "k2"}
SessionIds == 1..3
\* Time passes in steps of five minutes, up to MaxSweepTime.
SweepStep == 300000
MaxSweepTime == 1200000

\* The other actions of the relay leave the sessions alone.
HeadlessFrame == UNCHANGED <<nextCleanup, clients, nextRes, http, pendingRequests, timers, outbox, peer>>

expired_AtLimit(session_, t) == t - session_.lastActivity >= HEADLESS_SESSION_TIMEOUT

\* now - session.lastActivity > HEADLESS_SESSION_TIMEOUT
expired(session_, t) == t - session_.lastActivity > HEADLESS_SESSION_TIMEOUT

\* The body of the loop of cleanupInactiveSessions for one entry.
sweepEntry(h, apiKey, t) ==
    LET session_ == h.apiKeyToSession[apiKey]
    IN IF ~expired(session_, t) THEN h
       ELSE LET closed == IF session_.sessionId \in h.browserSessions
                          THEN [h EXCEPT !.browserSessions = @ \ {session_.sessionId},
                                         !.closedBrowsers = @ \cup {session_.sessionId}]
                          ELSE h
            IN [closed EXCEPT !.apiKeyToSession = MapDelete(@, apiKey)]

\* for (const [apiKey, session] of apiKeyToSession.entries())
RECURSIVE sweepEntries(_, _, _)
sweepEntries(h, apiKeys, t) ==
    IF apiKeys = {} THEN h
    ELSE LET apiKey == CHOOSE k \in apiKeys : TRUE
         IN sweepEntries(sweepEntry(h, apiKey, t), apiKeys \ {apiKey}, t)

\* The setInterval callback: cleanupInactiveSessions().
cleanupInactiveSessions ==
    LET h == [apiKeyToSession |-> apiKeyToSession, browserSessions |-> browserSessions,
              closedBrowsers |-> closedBrowsers]
        swept == sweepEntries(h, DOMAIN apiKeyToSession, now)
    IN /\ apiKeyToSession' = swept.apiKeyToSession
       /\ browserSessions' = swept.browserSessions
       /\ closedBrowsers' = swept.closedBrowsers
       /\ UNCHANGED now /\ HeadlessFrame

\* A headless session starts for an API key that has none: a new session
\* id, with or without a browser registered for it.
StartSession(apiKey, sessionId, withBrowser) ==
    /\ apiKey \notin DOMAIN apiKeyToSession
    /\ sessionId \notin browserSessions \cup closedBrowsers
    /\ \A k \in DOMAIN apiKeyToSession : apiKeyToSession[k].sessionId # sessionId
    /\ apiKeyToSession' = MapSet(apiKeyToSession, apiKey,
                                 [sessionId |-> sessionId, lastActivity |-> now])
    /\ browserSessions' = IF withBrowser THEN browserSessions \cup {sessionId}
                          ELSE browserSessions
    /\ UNCHANGED <<now, closedBrowsers>> /\ HeadlessFrame

\* A request uses the session of the API key.
SessionActivity(apiKey) ==
    /\ apiKey \in DOMAIN apiKeyToSession
    /\ apiKeyToSession' = [apiKeyToSession EXCEPT ![apiKey].lastActivity = now]
    /\ UNCHANGED <<now, browserSessions, closedBrowsers>> /\ HeadlessFrame

TimePasses ==
    /\ now + SweepStep <= MaxSweepTime
    /\ now' = now + SweepStep
    /\ UNCHANGED headless /\ HeadlessFrame

NextSweep ==
    \/ \E apiKey \in ApiKeys, sessionId \in SessionIds, withBrowser \in BOOLEAN :
          StartSession(apiKey, sessionId, withBrowser)
    \/ \E apiKey \in ApiKeys : SessionActivity(apiKey)
    \/ TimePasses
    \/ cleanupInactiveSessions

SweepSpec == Init /\ [][NextSweep]_vars

\* ======================================================================
\* The Foundry module (scripts/module.js)
\* ======================================================================
\* WebSocket objects created in one behaviour.
MaxSockets == 3
\* The counter of scheduled reconnects stops here.
MaxCounted == 4

ConnectTimeout == 5000
MaxReconnectDelay == 30000

WSCloseCodes == [Normal |-> 1000, DuplicateConnection |-> 4004]
\* 1006 is the code of a connection that ended without a close frame.
AbnormalClosure == 1006

\* new WebSocket(url): CONNECTING, with the timeout of connect() armed.
NewSocket == [readyState |-> "CONNECTING", timeout |-> TRUE]

\* The manager's part of the state as a method finds it; a method returns
\* the state it leaves.
This == [mgr |-> mgr, sockets |-> sockets, sentMessages |-> <<>>, attempts |-> attempts, scheduled |-> scheduled]

Becomes(p) ==
    /\ mgr' = p.mgr
    /\ sockets' = p.sockets
    /\ sentMessages' = p.sentMessages
    /\ attempts' = p.attempts
    /\ scheduled' = p.scheduled

gameUser == users[user]

isFullGM(u) == isGM(u) /\ u.role = 4

isConnected(p) ==
    p.mgr.socket # NoSocket /\ p.sockets[p.mgr.socket].readyState = "OPEN"

\* send(data): socket.send on an OPEN socket, nothing otherwise.
send(p, data) ==
    IF p.mgr.socket # NoSocket /\ p.sockets[p.mgr.socket].readyState = "OPEN"
    THEN [p EXCEPT !.sentMessages = Append(@, [socket |-> p.mgr.socket, data |-> data])]
    ELSE p

\* socket.close() of socket number n: CLOSING until the close event.
close(p, n) ==
    IF p.sockets[n].readyState \in {"CONNECTING", "OPEN"}
    THEN [p EXCEPT !.sockets[n].readyState = "CLOSING"]
    ELSE p

Min(a, b) == IF a < b THEN a ELSE b

\* Math.min(30000, baseDelay * Math.pow(2, this.reconnectAttempts - 1))
reconnectDelay(baseDelay, reconnectAttempts) ==
    Min(MaxReconnectDelay, baseDelay * 2 ^ (reconnectAttempts - 1))

scheduleReconnect(p) ==
    IF p.mgr.reconnectTimer # NoTimer THEN p
    ELSE LET reconnectAttempts == p.mgr.reconnectAttempts + 1
         IN IF reconnectAttempts > settings.reconnectMaxAttempts
            THEN [p EXCEPT !.mgr.reconnectAttempts = 0]
            ELSE [p EXCEPT !.mgr.reconnectAttempts = reconnectAttempts,
                           !.mgr.reconnectTimer =
                               reconnectDelay(settings.reconnectBaseDelay, reconnectAttempts),
                           !.attempts = Min(@ + 1, MaxCounted),
                           !.scheduled.timeouts = Min(@ + 1, MaxCounted)]

\* if (this.reconnectTimer !== null) { clearTimeout(...); this.reconnectTimer = null }
clearTimeout(p) ==
    IF p.mgr.reconnectTimer = NoTimer THEN p
    ELSE [p EXCEPT !.mgr.reconnectTimer = NoTimer, !.scheduled.timeouts = @ - 1]

clearInterval_Kept(p) == p

\* if (this.pingInterval !== null) { clearInterval(this.pingInterval); ... }
clearInterval(p) ==
    IF ~p.mgr.pingInterval THEN p
    ELSE [p EXCEPT !.mgr.pingInterval = FALSE, !.scheduled.intervals = @ - 1]

\* What new URL and new WebSocket do in connect(): return, or throw.
ConnectOutcomes == {"ok", "throw"}

connect(p, outcome) ==
    IF ~isFullGM(gameUser) THEN p
    ELSE IF ~p.mgr.isPrimaryGM THEN p
    ELSE IF p.mgr.isConnecting THEN p
    ELSE IF /\ p.mgr.socket # NoSocket
            /\ p.sockets[p.mgr.socket].readyState \in {"CONNECTING", "OPEN"} THEN p
    ELSE IF outcome = "throw"
         THEN scheduleReconnect([p EXCEPT !.mgr.isConnecting = FALSE])
         ELSE [p EXCEPT !.mgr.isConnecting = TRUE,
                        !.sockets = Append(@, NewSocket),
                        !.mgr.socket = Len(p.sockets) + 1]

disconnect(p) ==
    LET closed == IF p.mgr.socket # NoSocket
                  THEN [close(p, p.mgr.socket) EXCEPT !.mgr.socket = NoSocket]
                  ELSE p
    IN [clearInterval(clearTimeout(closed)) EXCEPT !.mgr.reconnectAttempts = 0,
                                                  !.mgr.isConnecting = FALSE,
                                                  !.attempts = 0]

\* reevaluatePrimaryGM() with game.users as the hook finds them.
reevaluatePrimaryGM(p, gameUsers, outcome) ==
    LET wasPrimary == p.mgr.isPrimaryGM
        isPrimaryGM == checkIfPrimaryGM(gameUsers[user], gameUsers)
        q == [p EXCEPT !.mgr.isPrimaryGM = isPrimaryGM]
    IN IF wasPrimary = isPrimaryGM THEN q
       ELSE IF isPrimaryGM /\ ~isConnected(q) THEN connect(q, outcome)
       ELSE IF ~isPrimaryGM /\ isConnected(q) THEN disconnect(q)
       ELSE q

Ping == [type |-> JStr("ping")]
Pong == [type |-> JStr("pong")]

onOpen(p) ==
    LET q == send([p EXCEPT !.mgr.isConnecting = FALSE, !.mgr.reconnectAttempts = 0,
                            !.attempts = 0], Ping)
    IN [clearInterval(q) EXCEPT !.mgr.pingInterval = TRUE,
                                !.scheduled.intervals = Min(@ + 1, MaxCounted)]

onClose(p, code) ==
    LET q == clearInterval([p EXCEPT !.mgr.socket = NoSocket, !.mgr.isConnecting = FALSE])
    IN IF code # WSCloseCodes.Normal /\ q.mgr.isPrimaryGM THEN scheduleReconnect(q) ELSE q

onError(p) == [p EXCEPT !.mgr.isConnecting = FALSE]

\* ------------------------------------------------ the module's steps
\* What the steps of the manager leave alone.
PeerFrame == UNCHANGED <<settings, user, recentChatMessages, recentRolls, session>>
RelayFrame == UNCHANGED <<now, nextCleanup, clients, nextRes, http, pendingRequests, timers, outbox, headless>>

\* connect() called: by initializeWebSocket, or through module.api.
connectCalled(outcome) ==
    /\ isFullGM(gameUser)
    /\ Len(connect(This, outcome).sockets) <= MaxSockets
    /\ Becomes(connect(This, outcome))
    /\ UNCHANGED users /\ PeerFrame /\ RelayFrame

\* disconnect() called through module.api.
disconnectCalled ==
    /\ isFullGM(gameUser)
    /\ Becomes(disconnect(This))
    /\ UNCHANGED users /\ PeerFrame /\ RelayFrame

\* Another user of the world connects or disconnects; the hooks the
\* constructor registered for a full GM run reevaluatePrimaryGM.
userConnected(i, outcome) ==
    LET gameUsers == [users EXCEPT ![i].active = ~@]
        after == IF isFullGM(gameUser) THEN reevaluatePrimaryGM(This, gameUsers, outcome)
                 ELSE This
    IN /\ i \in DOMAIN users
       /\ i # user
       /\ users' = gameUsers
       /\ Len(after.sockets) <= MaxSockets
       /\ Becomes(after)
       /\ PeerFrame /\ RelayFrame

\* The open event of socket number n.
SocketOpens(n) ==
    /\ n \in DOMAIN sockets
    /\ sockets[n].readyState = "CONNECTING"
    /\ Becomes(onOpen([This EXCEPT !.sockets[n] = [readyState |-> "OPEN", timeout |-> FALSE]]))
    /\ UNCHANGED users /\ PeerFrame /\ RelayFrame

\* The codes a close event can carry: a connection that was never open, or
\* that the module closed before it was, ends abnormally.
CloseCodes == {WSCloseCodes.Normal, AbnormalClosure, WSCloseCodes.DuplicateConnection}

\* The close event of socket number n, after an error event or without.
SocketCloses(n, code, error) ==
    LET closed == [This EXCEPT !.sockets[n] = [readyState |-> "CLOSED", timeout |-> FALSE]]
    IN /\ n \in DOMAIN sockets
       /\ sockets[n].readyState \in {"CONNECTING", "OPEN", "CLOSING"}
       /\ sockets[n].readyState = "CONNECTING" => code = AbnormalClosure
       /\ sockets[n].readyState = "CLOSING" => code # WSCloseCodes.DuplicateConnection
       /\ error => code = AbnormalClosure
       /\ Becomes(onClose(IF error THEN onError(closed) ELSE closed, code))
       /\ UNCHANGED users /\ PeerFrame /\ RelayFrame

\* The setTimeout callback of the connect() that created socket number n.
ConnectionTimeout(n) ==
    LET fired == [This EXCEPT !.sockets[n].timeout = FALSE]
        socket == fired.mgr.socket
    IN /\ n \in DOMAIN sockets
       /\ sockets[n].timeout
       /\ IF socket # NoSocket /\ fired.sockets[socket].readyState = "CONNECTING"
          THEN Becomes(scheduleReconnect([close(fired, socket) EXCEPT
                                            !.mgr.socket = NoSocket,
                                            !.mgr.isConnecting = FALSE]))
          ELSE Becomes(fired)
       /\ UNCHANGED users /\ PeerFrame /\ RelayFrame

\* The setTimeout callback of scheduleReconnect.
ReconnectTimerFires(outcome) ==
    LET fired == [This EXCEPT !.mgr.reconnectTimer = NoTimer, !.scheduled.timeouts = @ - 1]
        after == IF fired.mgr.isPrimaryGM THEN connect(fired, outcome)
                 ELSE [fired EXCEPT !.mgr.reconnectAttempts = 0]
    IN /\ mgr.reconnectTimer # NoTimer
       /\ Len(after.sockets) <= MaxSockets
       /\ Becomes(after)
       /\ UNCHANGED users /\ PeerFrame /\ RelayFrame

\* The setInterval callback of onOpen.
PingIntervalFires ==
    /\ mgr.pingInterval
    /\ Becomes(IF isConnected(This) THEN send(This, Ping) ELSE This)
    /\ UNCHANGED users /\ PeerFrame /\ RelayFrame

\* ------------------------------------------------ what the relay sends
\* GET /rolls
RollsRoute ==
    [config |-> [type |-> "rolls", timeout |-> 0],
     requiredParams |-> << ParamDef("clientId", <<"query">>, "string") >>,
     optionalParams |-> << ParamDef("limit", <<"query">>, "number"),
                           ParamDef("clear", <<"query">>, "boolean"),
                           ParamDef("refresh", <<"query">>, "boolean") >>]

\* GET /lastroll
LastRollRoute ==
    [config |-> [type |-> "last-roll", timeout |-> 0],
     requiredParams |-> << ParamDef("clientId", <<"query">>, "string") >>,
     optionalParams |-> << >>]

\* GET /chat/messages
ChatMessagesRoute ==
    [config |-> [type |-> "chat-messages", timeout |-> 0],
     requiredParams |-> << ParamDef("clientId", <<"query">>, "string") >>,
     optionalParams |-> << ParamDef("limit", <<"query">>, "number"),
                           ParamDef("sort", <<"query">>, "string"),
                           ParamDef("order", <<"query">>, "string"),
                           ParamDef("user", <<"query">>, "string"),
                           ParamDef("type", <<"query">>, "string") >>]

PeerRoutes == {RollsRoute, LastRollRoute, ChatMessagesRoute}

\* The value the type stage leaves in params[p.name].
coerced(p, value) ==
    CASE value \in {Undefined, Null} -> value
      [] p.type = "number" /\ value.k # "num" -> parseFloat(value)
      [] p.type = "boolean" /\ value.k # "bool" -> JBool(value = JStr("true"))
      [] OTHER -> value

coercedParams(route, params) ==
    [name \in DOMAIN params |->
        LET p == CHOOSE q \in {allParamDefs(route)[i] : i \in DOMAIN allParamDefs(route)} :
                    q.name = name
        IN coerced(p, params[name])]

\* buildPayload of GET /rolls
rollsPayload(params) ==
    (IF Truthy(params["limit"]) THEN "limit" :> params["limit"] ELSE <<>>)
      @@ (IF Truthy(params["clear"]) \/ Truthy(params["refresh"])
          THEN ("clear" :> JBool(TRUE)) @@ ("refresh" :> JBool(TRUE)) ELSE <<>>)

payloadSource(route, params) ==
    IF route.config.type = "rolls" THEN rollsPayload(params) ELSE params

\* const { clientId, type, ...payload } = payloadSource
payloadOf(source) == [key \in DOMAIN source \ {"clientId", "type"} |-> source[key]]

\* The message client.send serialises: { type: config.type, requestId,
\* ...payload, data: { ...payload.data } }; JSON.stringify leaves out the
\* keys whose value is undefined.
clientMessage(route, requestId, params) ==
    LET payload == payloadOf(payloadSource(route, params))
        message == ("data" :> JObj(<<>>)) @@ payload
                      @@ ("type" :> JStr(route.config.type)) @@ ("requestId" :> requestId)
    IN jsonBody(JObj(message)).v

\* The query strings of the callers of the three routes.
PeerQueries ==
    { ("clientId" :> JStr("c1")) @@ limit @@ order @@ filter :
        limit \in {<<>>, "limit" :> JStr("5")},
        order \in {<<>>, "order" :> JStr("asc")},
        filter \in {<<>>, "user" :> JStr("gm"), "type" :> JStr("ic")} }

PeerHttpRequests == { [body |-> Undefined, query |-> JObj(q)] : q \in PeerQueries }

\* What the relay sends to the module for the request req of a route.
relayMessage(route, req) ==
    clientMessage(route, RequestIdOf(route.config.type, 0),
                  coercedParams(route, extractParams(route, req)))

RelayMessages ==
    { relayMessage(route, req) : route \in PeerRoutes, req \in PeerHttpRequests }

\* ------------------------------------------------ the module's storage
Timestamps == 1..2

\* The ChatMessage documents the createChatMessage hook is called with.
Documents ==
    { [id |-> "m1", user |-> "gm", type |-> "ic", isRoll |-> FALSE],
      [id |-> "m1", user |-> "gm", type |-> "ooc", isRoll |-> FALSE],
      [id |-> "m2", user |-> "p1", type |-> "ic", isRoll |-> FALSE],
      [id |-> "r1", user |-> "p1", type |-> "ic", isRoll |-> TRUE] }

chatData(message, t) ==
    JObj([id |-> JStr(message.id), user |-> JObj([id |-> JStr(message.user)]),
          type |-> JStr(message.type), timestamp |-> JNum(t)])

rollData(message, t) ==
    JObj([id |-> JStr(message.id), user |-> JObj([id |-> JStr(message.user)]),
          rollTotal |-> JNum(7), timestamp |-> JNum(t)])

\* The place of the stored entry with the id of entry, 0 when there is none.
findIndex(stored, entry) ==
    IF \E i \in DOMAIN stored : stored[i].v.id = entry.v.id
    THEN CHOOSE i \in DOMAIN stored :
            /\ stored[i].v.id = entry.v.id
            /\ \A j \in 1..(i - 1) : stored[j].v.id # entry.v.id
    ELSE 0

\* Replace the entry of the same id, or put the new one in front.
storedWith(stored, entry) ==
    IF findIndex(stored, entry) # 0
    THEN [stored EXCEPT ![findIndex(stored, entry)] = entry]
    ELSE <<entry>> \o stored

\* array.length = max on an array longer than max: the entries at the end
\* are dropped.
truncated(stored, max) ==
    IF Len(stored) > max THEN SubSeq(stored, 1, max) ELSE stored

\* game.settings.get(moduleId, "maxChatMessagesStored") || MAX_CHAT_MESSAGES_STORED
maxStored(s) ==
    IF s.maxChatMessagesStored # 0 THEN s.maxChatMessagesStored ELSE MAX_CHAT_MESSAGES_STORED

\* The chat hook and the roll hook on the arrays they are given.
chatHook(stored, message, t, s) ==
    IF message.isRoll THEN stored
    ELSE truncated(storedWith(stored, chatData(message, t)), maxStored(s))

rollHook(stored, message, t) ==
    IF message.isRoll
    THEN truncated(storedWith(stored, rollData(message, t)), MAX_ROLLS_STORED)
    ELSE stored

\* The two createChatMessage hooks, run at clock reading t.
createChatMessage(message, t) ==
    LET rolled == /\ message.isRoll
        after == IF rolled /\ isConnected(This)
                 THEN send(This, [type |-> JStr("roll-data"), data |-> rollData(message, t)])
                 ELSE This
    IN /\ \A i \in DOMAIN recentChatMessages : recentChatMessages[i].v.timestamp.v <= t
       /\ \A i \in DOMAIN recentRolls : recentRolls[i].v.timestamp.v <= t
       /\ recentChatMessages' = chatHook(recentChatMessages, message, t, settings)
       /\ recentRolls' = rollHook(recentRolls, message, t)
       /\ Becomes(after)
       /\ UNCHANGED <<settings, users, user, session>> /\ RelayFrame

\* ------------------------------------------------ the module's handlers
Slice(q, limit) == SubSeq(q, 1, Min(Len(q), limit))

\* messages.sort by timestamp: a stable sort, descending or ascending.
RECURSIVE sortedByTimestamp(_, _)
sortedByTimestamp(q, order) ==
    IF q = <<>> THEN <<>>
    ELSE LET rest == sortedByTimestamp(SubSeq(q, 1, Len(q) - 1), order)
             x == q[Len(q)]
             before(y) == IF order = JStr("desc") THEN y.v.timestamp.v >= x.v.timestamp.v
                          ELSE y.v.timestamp.v <= x.v.timestamp.v
             k == Cardinality({i \in DOMAIN rest : before(rest[i])})
         IN SubSeq(rest, 1, k) \o <<x>> \o SubSeq(rest, k + 1, Len(rest))

ChatMessagesLimit == 50
MaxRollsReturned == 20

\* The body of the try block runs through, or something in it throws.
HandlerOutcomes == {"ok", "throw"}

\* The handler of chat-messages.
chatMessagesHandler(p, data, outcome) ==
    LET limit == Or(Get(data, "limit"), JNum(ChatMessagesLimit))
        sort == Or(Get(data, "sort"), JStr("timestamp"))
        order == Or(Get(data, "order"), JStr("desc"))
        messages == IF sort = JStr("timestamp")
                    THEN sortedByTimestamp(recentChatMessages, order)
                    ELSE recentChatMessages
        limitedMessages == Slice(messages, limit.v)
    IN IF outcome = "throw"
       THEN send(p, ("type" :> JStr("chat-messages-result"))
                       @@ ("requestId" :> Get(data, "requestId"))
                       @@ ("error" :> JStr("boom")) @@ ("messages" :> JArr(<<>>)))
       ELSE send(p, ("type" :> JStr("chat-messages-result"))
                       @@ ("requestId" :> Get(data, "requestId"))
                       @@ ("messages" :> JArr(limitedMessages))
                       @@ ("total" :> JNum(Len(messages))))

\* The handler of rolls.
rollsHandler(p, data) ==
    send(p, ("type" :> JStr("rolls-result")) @@ ("requestId" :> Get(data, "requestId"))
              @@ ("data" :> JArr(Slice(recentRolls,
                                       Or(Get(data, "limit"), JNum(MaxRollsReturned)).v))))

\* The handler of last-roll.
lastRollHandler(p, data) ==
    send(p, ("type" :> JStr("last-roll-result")) @@ ("requestId" :> Get(data, "requestId"))
              @@ ("data" :> IF Len(recentRolls) > 0 THEN recentRolls[1] ELSE Null))

\* The types the routers registered a handler for.
messageHandlers == {"ping", "pong", "chat-messages", "rolls", "last-roll"}

\* onMessage: the handler registered for data.type, if there is one.
onMessage(p, data, outcome) ==
    LET type == Get(data, "type")
    IN IF ~Truthy(type) \/ type.v \notin messageHandlers THEN p
       ELSE CASE type.v = "ping" -> send(p, Pong)
              [] type.v = "pong" -> p
              [] type.v = "chat-messages" -> chatMessagesHandler(p, data, outcome)
              [] type.v = "rolls" -> rollsHandler(p, data)
              [] type.v = "last-roll" -> lastRollHandler(p, data)

\* The messages a relay sends besides requests, and one of an unknown type.
KeepAliveMessages == {Ping, Pong, [type |-> JStr("welcome")]}

\* The message event of socket number n.
Receive(n, data, outcome) ==
    /\ n \in DOMAIN sockets
    /\ sockets[n].readyState = "OPEN"
    /\ outcome = "throw" => Get(data, "type") = JStr("chat-messages")
    /\ Becomes(onMessage(This, data, outcome))
    /\ UNCHANGED users /\ PeerFrame /\ RelayFrame

\* ------------------------------------------------ the module on its own
PeerInit ==
    /\ RelayInit
    /\ \E s \in SettingsChoices, others \in SUBSET {2, 4} : Constructed(s, 1, {1} \cup others)

\* The connection manager of the full GM who is user number 1.
NextPeer ==
    \/ \E outcome \in ConnectOutcomes : connectCalled(outcome)
    \/ disconnectCalled
    \/ \E i \in {2, 4}, outcome \in ConnectOutcomes : userConnected(i, outcome)
    \/ \E n \in 1..MaxSockets : SocketOpens(n)
    \/ \E n \in 1..MaxSockets, code \in CloseCodes, error \in BOOLEAN : SocketCloses(n, code, error)
    \/ \E n \in 1..MaxSockets : ConnectionTimeout(n)
    \/ \E outcome \in ConnectOutcomes : ReconnectTimerFires(outcome)
    \/ PingIntervalFires
    \/ \E n \in 1..MaxSockets, data \in KeepAliveMessages : Receive(n, data, "ok")

PeerSpec == PeerInit /\ [][NextPeer]_vars

\* ------------------------------------- the module left to its timers
\* initializeWebSocket starts the connection; after that only the events
\* of the sockets and the module's two timers act.
Initialized ==
    /\ sockets = <<>>
    /\ connectCalled("ok")

NextReconnect ==
    \/ Initialized
    \/ \E n \in 1..MaxSockets : SocketOpens(n)
    \/ \E n \in 1..MaxSockets, code \in CloseCodes, error \in BOOLEAN : SocketCloses(n, code, error)
    \/ \E n \in 1..MaxSockets : ConnectionTimeout(n)
    \/ \E outcome \in ConnectOutcomes : ReconnectTimerFires(outcome)

ReconnectSpec == PeerInit /\ [][NextReconnect]_vars

\* ------------------------------------- two browsers with one clientId
\* The socket of a second browser that connects with the module's clientId
\* (the same user logged in twice), as the client table refers to it.
OtherSession == MaxSockets + 1

\* The relay accepts socket number n of the module: the handshake closes
\* the session the client table holds for the clientId with 4004 and puts
\* the new one in; the module sees the open event.
AcceptedByRelay(n) ==
    /\ n \in DOMAIN sockets
    /\ sockets[n].readyState = "CONNECTING"
    /\ session' = n
    /\ Becomes(onOpen([This EXCEPT !.sockets[n] = [readyState |-> "OPEN", timeout |-> FALSE]]))
    /\ UNCHANGED <<settings, users, user, recentChatMessages, recentRolls>> /\ RelayFrame

\* The relay accepts the socket of the second browser: the module's session,
\* if the table holds one, is closed with 4004, and the module sees the
\* close event.  The second browser connects after the module's, as in
\* the scenario of two opens in succession.
OtherAccepted ==
    /\ session \in DOMAIN sockets
    /\ session' = OtherSession
    /\ Becomes(onClose([This EXCEPT !.sockets[session] =
                                        [readyState |-> "CLOSED", timeout |-> FALSE]],
                       WSCloseCodes.DuplicateConnection))
    /\ UNCHANGED <<settings, users, user, recentChatMessages, recentRolls>> /\ RelayFrame

\* The second browser closes its socket: the relay removes its session.
OtherLeaves ==
    /\ session = OtherSession
    /\ session' = NoSocket
    /\ Becomes(This)
    /\ UNCHANGED <<settings, users, user, recentChatMessages, recentRolls>> /\ RelayFrame

\* The relay sends a request, or a ping's answer, to the session of the clientId.
Delivered(data) ==
    /\ session \in DOMAIN sockets
    /\ Receive(session, data, "ok")

\* The user starts the module's connection; once displaced, only the
\* module's own timers connect again.
Started ==
    /\ session = NoSocket
    /\ connectCalled("ok")

NextDuplicate ==
    \/ Started
    \/ \E n \in 1..MaxSockets : AcceptedByRelay(n)
    \/ OtherAccepted
    \/ OtherLeaves
    \/ \E n \in 1..MaxSockets : ConnectionTimeout(n)
    \/ ReconnectTimerFires("ok")
    \/ PingIntervalFires
    \/ \E data \in RelayMessages \cup KeepAliveMessages : Delivered(data)

DuplicateSpec == PeerInit /\ [][NextDuplicate]_vars

\* The election in the browser of any user of the world, with any users
\* active when the module starts.
ElectionInit ==
    /\ RelayInit
    /\ \E me \in DOMAIN GameUsers, active \in SUBSET DOMAIN GameUsers :
          Constructed(DefaultSettings, me, active)

NextElection ==
    \/ \E i \in DOMAIN GameUsers, outcome \in ConnectOutcomes : userConnected(i, outcome)
    \/ \E outcome \in ConnectOutcomes : connectCalled(outcome)
    \/ \E n \in 1..MaxSockets : SocketOpens(n)
    \/ \E n \in 1..MaxSockets : SocketCloses(n, WSCloseCodes.Normal, FALSE)

ElectionSpec == ElectionInit /\ [][NextElection]_vars

\* The module answering the relay: the hooks fill the storage, the socket
\* opens and closes, and the requests of the three routes arrive.
NextHandlers ==
    \/ connectCalled("ok")
    \/ disconnectCalled
    \/ \E n \in 1..MaxSockets : SocketOpens(n)
    \/ \E n \in 1..MaxSockets : SocketCloses(n, WSCloseCodes.Normal, FALSE)
    \/ \E message \in Documents, t \in Timestamps : createChatMessage(message, t)
    \/ \E n \in 1..MaxSockets, data \in RelayMessages \cup KeepAliveMessages,
          outcome \in HandlerOutcomes : Receive(n, data, outcome)

HandlersSpec == Init /\ [][NextHandlers]_vars

\* ------------------------------------------------ the stores filling up
\* The values the world's GM gives the setting "Max Chat Messages Stored"
\* (range 10 to 500 in steps of 10).
StoreMaxChoices == {10, 20}

\* The number of chat messages, and of rolls, the world creates.
MaxDocuments == 21

\* The ids of the chat messages and of the rolls, in the order of their
\* creation.
DocumentId(isRoll, n) == (IF isRoll THEN "r" ELSE "m") \o ToString(n)
DocumentNumber(entry) ==
    CHOOSE n \in 1..MaxDocuments : entry.v.id \in {JStr(DocumentId(isRoll, n)) : isRoll \in BOOLEAN}

\* The number of documents a store has been given so far: a new entry is
\* put in front of its store and is never dropped from there.
Created(stored) == IF stored = <<>> THEN 0 ELSE DocumentNumber(stored[1])

StoreOf(isRoll) == IF isRoll THEN recentRolls ELSE recentChatMessages

NewDocument(isRoll) ==
    [id |-> DocumentId(isRoll, Created(StoreOf(isRoll)) + 1), user |-> "gm", type |-> "ic",
     isRoll |-> isRoll]

\* The hook called again for a stored document, whose data have changed
\* since: a chat message of another type, a roll of another user.
Changed == [type |-> "ooc", user |-> "p1"]

RepeatedOf(stored, isRoll) ==
    { [id |-> stored[i].v.id.v, user |-> IF isRoll THEN Changed.user ELSE "gm",
       type |-> IF isRoll THEN "ic" ELSE Changed.type, isRoll |-> isRoll] :
        i \in DOMAIN stored }

RepeatedDocuments == RepeatedOf(recentChatMessages, FALSE) \cup RepeatedOf(recentRolls, TRUE)

\* The stored entries that were replaced by a repeated call.
Replaced ==
    {i \in DOMAIN recentChatMessages : recentChatMessages[i].v.type = JStr(Changed.type)}
       \cup {-i : i \in {j \in DOMAIN recentRolls :
                              recentRolls[j].v.user.v.id = JStr(Changed.user)}}

\* How many replaced entries the stores hold at a time.
MaxReplaced == 1

\* The clock reading of the hooks.
StoreTime == 1

DocumentCreated(isRoll) ==
    /\ Created(StoreOf(isRoll)) < MaxDocuments
    /\ createChatMessage(NewDocument(isRoll), StoreTime)

DocumentRepeated(message) ==
    /\ message \in RepeatedDocuments
    /\ Cardinality(Replaced) < MaxReplaced
    /\ createChatMessage(message, StoreTime)

\* game.settings.set from the settings dialog of the world.
SetMaxStored(m) ==
    /\ settings' = [settings EXCEPT !.maxChatMessagesStored = m]
    /\ UNCHANGED <<users, user, mgr, sockets, sentMessages, recentChatMessages, recentRolls,
                   session, attempts, scheduled>>
    /\ RelayFrame

StoreInit ==
    /\ RelayInit
    /\ \E m \in StoreMaxChoices :
          Constructed([DefaultSettings EXCEPT !.maxChatMessagesStored = m], 1, {1})

NextStore ==
    \/ \E isRoll \in BOOLEAN : DocumentCreated(isRoll)
    \/ \E message \in RepeatedDocuments : DocumentRepeated(message)
    \/ \E m \in StoreMaxChoices : SetMaxStored(m)

StoreSpec == StoreInit /\ [][NextStore]_vars

\* ======================================================================
\* Properties of the correlator
\* ======================================================================
Response(status, body) == [status |-> status, headers |-> <<>>, body |-> body]
Answered(r) == http[r].status # 0
WaiterIds == DOMAIN pendingRequests
\* The waiter under id leaves the table, or is replaced, in this step.
Leaves(id) ==
    id \notin DOMAIN pendingRequests' \/ pendingRequests'[id] # pendingRequests[id]
\* This step is a message handler run on a message that carries id.
HandledMessage(id) ==
    \/ \E type \in GenericHandlerTypes, client \in ClientIds, data \in GenericMessages :
          Get(data, "requestId") = id /\ GenericResult(type, client, data)
    \/ \E client \in ClientIds, data \in DownloadMessages :
          Get(data, "requestId") = id /\ DownloadFileResult(client, data)

\* C1: once every deadline timer has fired, every HTTP request that was
\* accepted (each was answered at once or registered a waiter and armed a
\* timer) has received its response; http holds at most one response per
\* request, so this is the one response of the claim.
C1_EveryWaiterAnswered ==
    timers = {} => \A r \in 1..(nextRes - 1) : Answered(r)

\* C2: a waiter leaves pendingRequests only in a step that is a peer
\* response carrying its requestId or the firing of a deadline timer that
\* answers the waiter's caller with 408 (the code has no cancellation).
C2_RemovedOnlyByListedPaths ==
    [][\A id \in WaiterIds :
          Leaves(id) =>
             \/ HandledMessage(id)
             \/ \E t \in timers :
                   /\ TimeoutFires(t)
                   /\ t.requestId = id
                   /\ t.res = pendingRequests[id].res
                   /\ ~Answered(t.res)
                   /\ http'[t.res].status = 408]_vars

\* C3: two requests that are waiting for their deadline never carry the
\* same requestId.
C3_RequestIdsUnique ==
    \A t1, t2 \in timers : t1.res # t2.res => t1.requestId # t2.requestId

\* C3, second half: registering a waiter never replaces a waiter that is
\* still in pendingRequests.
C3_NeverOverwrites ==
    [][\A id \in WaiterIds :
          id \in DOMAIN pendingRequests' =>
             pendingRequests'[id].res = pendingRequests[id].res]_vars

\* `t-result`, the response type of request type t.
C4_ResponseTypeOf(type) ==
    IF type = "roll" THEN "roll-result" ELSE "download-file-result"

\* C4: a message handler that completes the waiter under id ran on a message
\* whose type is the response type of that waiter's request type.
C4_OnlyMatchingTypeCompletes ==
    [][\A id \in WaiterIds :
          /\ \A type \in GenericHandlerTypes, client \in ClientIds, data \in GenericMessages :
                (Get(data, "requestId") = id /\ GenericResult(type, client, data))
                   => data["type"] = JStr(C4_ResponseTypeOf(pendingRequests[id].type))
          /\ \A client \in ClientIds, data \in DownloadMessages :
                (Get(data, "requestId") = id /\ DownloadFileResult(client, data))
                   => data["type"] = JStr(C4_ResponseTypeOf(pendingRequests[id].type))]_vars

\* C5 (under SilentPeerSpec, where no peer ever responds): when the deadline
\* timer of a request fires and its caller has no answer yet, the caller
\* receives 408 {error: "Request timed out"} and the requestId is no longer
\* in pendingRequests; when the caller was answered before, the timer
\* changes neither the responses nor pendingRequests.
C5_TimerAnswers408 ==
    [][\A t \in timers :
          TimeoutFires(t) =>
             IF ~Answered(t.res)
             THEN /\ http'[t.res] = Response(408, JObj([error |-> JStr("Request timed out")]))
                  /\ t.requestId \notin DOMAIN pendingRequests'
             ELSE http' = http /\ pendingRequests' = pendingRequests]_vars

\* C6: whenever the periodic cleanup removes a waiter, the waiter's caller
\* is answered with status 408.
C6_CleanupAnswers408 ==
    [][\A id \in WaiterIds :
          (Cleanup /\ id \notin DOMAIN pendingRequests')
             => http'[pendingRequests[id].res].status = 408]_vars

\* C7: the periodic cleanup removes no waiter whose own deadline timer is
\* still to come.
C7_CleanupOnlyPastDeadline ==
    [][\A id \in WaiterIds :
          (Cleanup /\ id \notin DOMAIN pendingRequests')
             => \A t \in timers :
                   (t.requestId = id /\ t.res = pendingRequests[id].res) => now >= t.due]_vars

\* C8: a request that passes validation and whose clientId has no session is
\* answered 404 {error: "Invalid client ID"}; pendingRequests, the messages
\* sent to peers and the timers stay as they were.
C8_UnknownClient404 ==
    [][\A config \in RouteConfigs, clientId \in TargetIds, sent \in SendOutcomes :
         \A extra \in buildPendingRequest(config.type) :
          (clientId \notin clients /\ createApiRoute(config, clientId, "ok", extra, sent))
             => /\ http'[nextRes] = Response(404, JObj([error |-> JStr("Invalid client ID")]))
                /\ pendingRequests' = pendingRequests
                /\ outbox' = outbox
                /\ timers' = timers]_vars

C8_Witness ==
    \E r \in Res :
       /\ http[r] = Response(404, JObj([error |-> JStr("Invalid client ID")]))
       /\ r < nextRes

\* C9: when send returns false the caller receives status 500, no timer is
\* armed, nothing is recorded as sent and pendingRequests is what it was
\* before the request.
C9_SendFailureLeavesTable ==
    [][\A config \in RouteConfigs, clientId \in TargetIds :
         \A extra \in buildPendingRequest(config.type) :
          (clientId \in clients /\ createApiRoute(config, clientId, "ok", extra, "false"))
             => /\ http'[nextRes].status = 500
                /\ timers' = timers
                /\ outbox' = outbox
                /\ pendingRequests' = pendingRequests]_vars

\* The message of the echo law: { type: "t-result", requestId, payload: P }.
C10_Echo(type, rid, p) ==
    [type |-> JStr(C4_ResponseTypeOf(type)), requestId |-> rid, payload |-> p]

\* P without its keys privateKey, apiKey and password, for the payloads of
\* the model.
C10_Stripped(p) ==
    IF p = JNum(17) THEN JNum(17)
    ELSE JObj([name |-> JStr("x"), items |-> JArr(<<JObj([id |-> JNum(1)])>>)])

\* The request of the waiter under rid was sent to the peer and waits for
\* its deadline.
C10_SentAndPending(rid, type) ==
    /\ rid \in WaiterIds
    /\ pendingRequests[rid].type = type
    /\ \E t \in timers : t.requestId = rid /\ t.res = pendingRequests[rid].res

\* C10 as stated: the echo makes the caller receive 200 with the body
\* { requestId, clientId, payload: P } and nothing else.
C10_EchoBodyExact ==
    [][\A type \in GenericHandlerTypes, client \in ClientIds,
          rid \in RequestIds \ {Undefined}, p \in Payloads :
          (C10_SentAndPending(rid, type) /\ GenericResult(type, client, C10_Echo(type, rid, p)))
             => http'[pendingRequests[rid].res] =
                   Response(200, JObj([requestId |-> rid,
                                       clientId |-> JStr(pendingRequests[rid].clientId),
                                       payload |-> p]))]_vars

\* C10 amended: the echo makes the caller of a request that was sent and is
\* still pending receive 200 with the body { requestId, clientId,
\* type: "t-result", payload: P' }, P' being P without its sensitive keys.
C10_EchoLaw ==
    [][\A type \in GenericHandlerTypes, client \in ClientIds,
          rid \in RequestIds \ {Undefined}, p \in Payloads :
          (C10_SentAndPending(rid, type) /\ GenericResult(type, client, C10_Echo(type, rid, p)))
             => http'[pendingRequests[rid].res] =
                   Response(200, JObj([requestId |-> rid,
                                       clientId |-> JStr(pendingRequests[rid].clientId),
                                       type |-> JStr(C4_ResponseTypeOf(type)),
                                       payload |-> C10_Stripped(p)]))]_vars

C10_Witness ==
    \E r \in Res, rid \in RequestIds \ {Undefined}, p \in Payloads :
       /\ http[r] = Response(200, JObj([requestId |-> rid, clientId |-> JStr("c1"),
                                        type |-> JStr("roll-result"),
                                        payload |-> C10_Stripped(p)]))
       /\ p # C10_Stripped(p)
       /\ rid \notin WaiterIds

\* The waiters whose caller has no answer yet.
WaitingIds == {id \in WaiterIds : ~Answered(pendingRequests[id].res)}

\* C11 as stated: the generic handler writes 400 when the message has an
\* error field and 200 otherwise, and removes the waiter in both cases.
C11_StatusByErrorField ==
    [][\A id \in WaitingIds : \A data \in GenericMessagesOf(id) :
        \A type \in GenericHandlerTypes, client \in ClientIds :
          GenericResult(type, client, data)
             => /\ http'[pendingRequests[id].res].status =
                      (IF "error" \in DOMAIN data THEN 400 ELSE 200)
                /\ id \notin DOMAIN pendingRequests']_vars

\* C11 amended: the generic handler writes 400 when the error field of the
\* message is truthy and 200 otherwise (an empty error string included), and
\* removes the waiter in both cases.
C11_StatusByTruthyError ==
    [][\A id \in WaitingIds : \A data \in GenericMessagesOf(id) :
        \A type \in GenericHandlerTypes, client \in ClientIds :
          GenericResult(type, client, data)
             => /\ http'[pendingRequests[id].res].status =
                      (IF Truthy(Get(data, "error")) THEN 400 ELSE 200)
                /\ id \notin DOMAIN pendingRequests']_vars

\* One caller holds the 400 of a failure, another the 200 of a message whose
\* error field is the empty string, and both waiters are gone.
C11_Witness ==
    \E r1, r2 \in Res :
       /\ http[r1].status = 400
       /\ http[r1].body.k = "obj"
       /\ Get(http[r1].body.v, "error") = JStr("boom")
       /\ Get(http[r1].body.v, "type") = JStr("roll-result")
       /\ http[r2].status = 200
       /\ http[r2].body.k = "obj"
       /\ Get(http[r2].body.v, "error") = JStr("")
       /\ WaiterIds = {}

\* The requestIds of the responses the message handlers have written.
CompletedIds ==
    {http[r].body.v["requestId"] :
        r \in {x \in Res : /\ Answered(x)
                            /\ http[x].body.k = "obj"
                            /\ "requestId" \in DOMAIN http[x].body.v}}

\* C12: a peer message that carries the requestId of a waiter a response
\* has completed before writes no HTTP response and leaves pendingRequests
\* unchanged.
C12_LateMessageDiscarded ==
    [][\A id \in CompletedIds :
        /\ \A data \in GenericMessagesOf(id) :
            \A type \in GenericHandlerTypes, client \in ClientIds :
              GenericResult(type, client, data)
                 => http' = http /\ pendingRequests' = pendingRequests
        /\ \A data \in DownloadMessagesOf(id), client \in ClientIds :
              DownloadFileResult(client, data)
                 => http' = http /\ pendingRequests' = pendingRequests]_vars

\* C13: a handler run on a message that has no requestId, or whose requestId
\* is no key of pendingRequests, writes no HTTP response and leaves
\* pendingRequests unchanged: a step that changes either is no such run of
\* a generic handler, of the get-sheet-response handler or of the
\* download-file-result handler.
C13_UnknownRequestIdDiscarded ==
    [][(http' # http \/ pendingRequests' # pendingRequests) =>
        /\ \A type \in GenericHandlerTypes, client \in ClientIds, data \in GenericMessages :
              ~hasPending(data) => ~GenericResult(type, client, data)
        /\ \A client \in ClientIds, data \in SheetMessages, dom \in DomOutcomes :
              ~hasPending(data) => ~GetSheetResponse(client, data, dom)
        /\ \A client \in ClientIds, data \in DownloadMessages :
              ~hasPending(data) => ~DownloadFileResult(client, data)]_vars

\* A peer is connected, a sheet request waits, and messages of all three
\* handlers arrive that name no waiter: without a requestId, and with one of
\* another millisecond.
C13_Witness ==
    /\ clients # {}
    /\ WaitingIds # {}
    /\ \E m \in ArrivingSheet : "requestId" \notin DOMAIN m
    /\ \E m \in ArrivingSheet : "requestId" \in DOMAIN m /\ ~hasPending(m)
    /\ \E m \in ArrivingGeneric : "requestId" \in DOMAIN m /\ ~hasPending(m)
    /\ \E m \in ArrivingDownload : "requestId" \in DOMAIN m /\ ~hasPending(m)

\* The get-sheet-response data matches the waiter under id, whose caller has
\* no answer yet, and carries no error.
C19_Matches(id, data) ==
    /\ pendingRequests[id].type = "get-sheet"
    /\ Field(pendingRequests[id], "uuid") = responseUuid(data)
    /\ ~Truthy(sheetError(data))

\* html and css as the message has them, at the top or under data.
C19_Part(data, key) ==
    IF key \in DOMAIN data THEN data[key]
    ELSE IF "data" \in DOMAIN data /\ key \in DOMAIN data["data"].v THEN data["data"].v[key]
    ELSE JStr("")

RECURSIVE HasSensitiveKey(_)
HasSensitiveKey(x) ==
    CASE x.k = "obj" ->
            \E key \in DOMAIN x.v : key \in SensitiveKeys \/ HasSensitiveKey(x.v[key])
      [] x.k = "arr" -> \E i \in DOMAIN x.v : HasSensitiveKey(x.v[i])
      [] OTHER -> FALSE

\* C14: no response body written to an HTTP caller has a key named
\* privateKey, apiKey or password at any depth, in objects or in arrays.
C14_NoSensitiveKeyWritten ==
    \A r \in Res : Answered(r) => ~HasSensitiveKey(http[r].body)

\* A caller holds the payload of a peer that had apiKey at the top and
\* password inside an array, without them.
C14_Witness ==
    \E r \in Res :
       /\ Answered(r)
       /\ http[r].body.k = "obj"
       /\ Get(http[r].body.v, "payload") =
             JObj([name |-> JStr("x"), items |-> JArr(<<JObj([id |-> JNum(1)])>>)])

\* out is in without the sensitive keys: the other keys with their values,
\* the array elements in their order.
RECURSIVE C15_Preserved(_, _)
C15_Preserved(in, out) ==
    CASE in.k = "obj" ->
            /\ out.k = "obj"
            /\ DOMAIN out.v = DOMAIN in.v \ SensitiveKeys
            /\ \A key \in DOMAIN out.v : C15_Preserved(in.v[key], out.v[key])
      [] in.k = "arr" ->
            /\ out.k = "arr"
            /\ Len(out.v) = Len(in.v)
            /\ \A i \in DOMAIN in.v : C15_Preserved(in.v[i], out.v[i])
      [] OTHER -> out = in

\* C15 (under SanitizeSpec): the body safeResponse writes is its data with
\* only the keys privateKey, apiKey and password removed at every depth;
\* data without a sensitive key is written as it is; sanitizing the written
\* body again changes nothing.
C15_SanitizeLaws ==
    [][\A res \in Res, statusCode \in StatusCodes, data \in Bodies :
          (~headersSent(http, res) /\ SafeResponseCall(res, statusCode, data))
             => LET out == http'[res].body
                IN /\ C15_Preserved(data, out)
                   /\ ~HasSensitiveKey(data) => out = data
                   /\ sanitizeResponse(out) = out
                   /\ sanitizeResponse(sanitizeResponse(data)) = sanitizeResponse(data)]_vars

\* One caller holds the nested body without its sensitive keys, the other
\* an array in the order it was given.
C15_Witness ==
    /\ http[1].status # 0
    /\ http[1].body =
          JObj([items |-> JArr(<<JObj([id |-> JNum(1)]), JObj(<<>>), JArr(<<JObj(<<>>)>>)>>)])
    /\ http[2].status # 0
    /\ http[2].body = JArr(<<JNum(2), JNum(1)>>)

\* C16: a session closing removes no waiter and writes no response, and a
\* waiter whose peer has no session leaves pendingRequests only in a step
\* that is a response carrying its requestId or the firing of its deadline
\* timer.
C16_DisconnectKeepsWaiters ==
    [][/\ \A c \in ClientIds :
             Disconnect(c) => pendingRequests' = pendingRequests /\ http' = http
       /\ \A id \in WaiterIds :
             (pendingRequests[id].clientId \notin clients /\ Leaves(id))
                => \/ HandledMessage(id)
                   \/ \E t \in timers :
                         /\ TimeoutFires(t)
                         /\ t.requestId = id
                         /\ t.res = pendingRequests[id].res]_vars

\* C17: while a request is in flight (its deadline timer is armed and not
\* due, its caller has no answer), a response with its requestId that a
\* peer sends, over whatever session the peer has by then, makes its caller
\* receive that answer.
C17_ReconnectedPeerAnswers ==
    [][\A t \in timers :
          (now < t.due /\ ~Answered(t.res))
             => \A data \in GenericMessagesOf(t.requestId) :
                \A type \in GenericHandlerTypes, client \in ClientIds :
                   GenericResult(type, client, data)
                      => /\ http'[t.res].status \in {200, 400}
                         /\ Get(http'[t.res].body.v, "requestId") = t.requestId]_vars

\* written is the file as bytes, with the three headers.
C18_IsBinary(written, data) ==
    /\ written.status = 200
    /\ written.body = JBytes(<<65, 66>>)
    /\ written.headers = [ContentType |-> data["mimeType"],
                          ContentDisposition |-> Attachment(data["filename"]),
                          ContentLength |-> 2]

\* written is JSON that holds the data URL of the message.
C18_IsJson(written, data) ==
    /\ written.status = 200
    /\ written.headers = <<>>
    /\ written.body.k = "obj"
    /\ Get(written.body.v, "fileData") = data["fileData"]

\* The message is a download-file-result with a file and no error.
C18_FileMessage(data) == ~Truthy(Get(data, "error")) /\ "fileData" \in DOMAIN data

C20_InOnePlace(req) ==
    /\ req.body.k = "obj"
    /\ ("clientId" \in DOMAIN req.body.v) # ("clientId" \in DOMAIN req.query.v)

\* req with its clientId moved from the one place to the other.
C20_Moved(req) ==
    LET without(f) == [key \in DOMAIN f \ {"clientId"} |-> f[key]]
    IN IF "clientId" \in DOMAIN req.body.v
       THEN [body |-> JObj(without(req.body.v)),
             query |-> JObj(req.query.v @@ ("clientId" :> req.body.v["clientId"]))]
       ELSE [body |-> JObj(req.body.v @@ ("clientId" :> req.query.v["clientId"])),
             query |-> JObj(without(req.query.v))]

\* C20 (under RoutesSpec): whatever a route does with a request that has its
\* clientId in one of body and query, it does with the request that has the
\* clientId in the other; and POST /roll with the clientId of a connected
\* peer in the body is sent to the peer.
C20_ClientIdBodyOrQuery ==
    [][\A route \in Routes, req \in Requests, sent \in SendOutcomes :
          (C20_InOnePlace(req) /\ routeHandler(route, req, sent))
             => /\ routeHandler(route, C20_Moved(req), sent)
                /\ ( /\ route = RollRoute
                     /\ "formula" \in DOMAIN req.body.v
                     /\ clientIdOf([clientId |-> Get(req.body.v, "clientId")]) \in clients
                     /\ sent = "true" )
                      => Len(outbox') = Len(outbox) + 1]_vars

\* The POST /chat request of the README: the JSON body {clientId, message}
\* with message = {message, speaker, type}, nothing in the query string.
C21_ChatRequest == [body |-> JObj(ChatBodyNested @@ ("clientId" :> JStr("c1"))), query |-> JObj(<<>>)]

\* C21 (under RoutesSpec): POST /chat with the body {clientId, message:{message,
\* speaker, type}} and the client connected passes validation: the handler
\* registers a waiter of type chat and sends one chat request to the peer.
C21_NestedChatAccepted ==
    [][("c1" \in clients /\ routeHandler(ChatRoute, C21_ChatRequest, "true"))
          => /\ MapHas(pendingRequests', RequestIdOf("chat", now))
             /\ pendingRequests'[RequestIdOf("chat", now)].type = "chat"
             /\ Len(outbox') = Len(outbox) + 1
             /\ outbox'[Len(outbox')].type = "chat"]_vars

\* C23 (under SheetSpec): the generic handlers complete no waiter of type
\* get-sheet or download-file: those waiters are completed by the
\* get-sheet-response and download-file-result handlers only.
C23_SpecialWaitersOnlyBySpecialHandlers ==
    [][\A id \in WaiterIds :
          pendingRequests[id].type \in {"get-sheet", "download-file"} =>
             \A type \in GenericHandlerTypes \cup SheetHandlerTypes, client \in ClientIds :
                \A data \in GenericMessagesOf(id) \cup SheetResultMessagesOf(id) :
                   ~(GenericResult(type, client, data) /\ id \notin DOMAIN pendingRequests')]_vars

\* ======================================================================
\* Properties of the module
\* ======================================================================
\* The stored message m passes the user and type filters of the query.
C22_Matches(m, query) ==
    /\ "user" \in DOMAIN query => m.v.user.v.id = query["user"]
    /\ "type" \in DOMAIN query => m.v.type = query["type"]

\* C22 (under HandlersSpec): for GET /chat/messages with a user or a type
\* filter, the filter value of the caller is in the chat-messages request
\* the relay sends, and the chat-messages-result the connected module
\* answers with holds only stored messages that pass the filter.
C22_FilteredChatHistory ==
    [][\A n \in 1..MaxSockets, req \in PeerHttpRequests :
          (isConnected(This) /\ Receive(n, relayMessage(ChatMessagesRoute, req), "ok"))
             => /\ \A key \in {"user", "type"} \cap DOMAIN req.query.v :
                      Get(relayMessage(ChatMessagesRoute, req), key) = req.query.v[key]
                /\ Len(sentMessages') = 1
                /\ \A i \in DOMAIN sentMessages'[1].data["messages"].v :
                      C22_Matches(sentMessages'[1].data["messages"].v[i], req.query.v)]_vars

\* C24 (under PeerSpec): in every reachable state every WebSocket the
\* manager created that is CONNECTING or OPEN is the one this.socket refers
\* to, so at most one such socket exists.
C24_OneConnection ==
    \A n \in DOMAIN sockets :
       sockets[n].readyState \in {"CONNECTING", "OPEN"} => mgr.socket = n

\* The active full GMs as game.users lists them.
C25_ActiveGMs == {i \in DOMAIN users : users[i].role = 4 /\ users[i].active}

\* User i is the active full GM whose id no other active full GM's id
\* precedes in the order of localeCompare.
C25_Smallest(i) ==
    /\ i \in C25_ActiveGMs
    /\ \A j \in C25_ActiveGMs : localeCompare(users[i].id, users[j].id) <= 0

\* C25 (under ElectionSpec): with game.users as every browser sees them,
\* checkIfPrimaryGM is true in the browser of exactly one active full GM
\* when there is one, the one whose id is smallest; it is false for every
\* user who is not an active full GM and for everybody when there is no
\* active full GM; and the manager's isPrimaryGM is what checkIfPrimaryGM
\* says of game.user.
C25_ElectionIsTieBreak ==
    /\ \A i \in DOMAIN users : checkIfPrimaryGM(users[i], users) = C25_Smallest(i)
    /\ C25_ActiveGMs # {} =>
          Cardinality({i \in DOMAIN users : checkIfPrimaryGM(users[i], users)}) = 1
    /\ C25_ActiveGMs = {} => \A i \in DOMAIN users : ~checkIfPrimaryGM(users[i], users)
    /\ mgr.isPrimaryGM = checkIfPrimaryGM(gameUser, users)

\* Three full GMs are active; game.user, whom game.users lists last, has the
\* smallest id, is primary and is connected; the GM listed first is not
\* primary.
C25_Witness ==
    /\ user = 4
    /\ C25_ActiveGMs = {1, 2, 4}
    /\ mgr.isPrimaryGM
    /\ isConnected(This)
    /\ ~checkIfPrimaryGM(users[1], users)

\* C26 (under DuplicateSpec): once the second browser's socket is the client
\* table entry of the clientId, it stays the entry until that browser closes
\* it, whatever the module in the first browser does after its close event.
C26_SecondSessionStays ==
    [][session = OtherSession => (session' = OtherSession \/ OtherLeaves)]_vars

\* C27 (under PeerSpec): the open event of a socket makes the module send
\* {type:"ping"} on that socket at once and leaves the ping interval
\* running with that socket as the one it pings.
C27_PingOnOpen ==
    [][\A n \in 1..MaxSockets :
          SocketOpens(n) =>
             /\ sentMessages' = << [socket |-> n, data |-> Ping] >>
             /\ mgr'.pingInterval /\ mgr'.socket = n]_vars

\* The type of the answer to a request of the given type.
C28_ResultType(type) ==
    CASE type = "rolls" -> "rolls-result"
      [] type = "last-roll" -> "last-roll-result"
      [] type = "chat-messages" -> "chat-messages-result"

\* C28 (under HandlersSpec): in every reachable state, a request of type
\* rolls, last-roll or chat-messages that arrives on an OPEN socket makes
\* the module send exactly one message, on that socket, of type
\* <type>-result with the request's requestId, and with an error field
\* exactly when the chat-messages handler fails.
C28_OneResultPerRequest ==
    \A n \in DOMAIN sockets, data \in RelayMessages, outcome \in HandlerOutcomes :
       (/\ sockets[n].readyState = "OPEN"
        /\ outcome = "throw" => Get(data, "type") = JStr("chat-messages"))
          => LET sent == onMessage(This, data, outcome).sentMessages
             IN /\ Len(sent) = 1
                /\ sent[1].socket = n
                /\ sent[1].data["type"] = JStr(C28_ResultType(data["type"].v))
                /\ Get(sent[1].data, "requestId") = Get(data, "requestId")
                /\ outcome = "throw" <=> "error" \in DOMAIN sent[1].data

\* C29 (under ReconnectSpec): the module arms its reconnect timer at most
\* reconnectMaxAttempts times between one open event and the next, and
\* this.reconnectAttempts never exceeds reconnectMaxAttempts.
C29_AttemptsBounded ==
    /\ attempts <= settings.reconnectMaxAttempts
    /\ mgr.reconnectAttempts <= settings.reconnectMaxAttempts

\* C30 (under ReconnectSpec): the k-th reconnect timer the module arms since
\* the last open event (k below the bound of the count) waits
\* min(30000, baseDelay * 2^(k-1)) milliseconds.
C30_CappedBackoff ==
    [][(attempts' = attempts + 1 /\ attempts' < MaxCounted)
          => mgr'.reconnectTimer =
                Min(MaxReconnectDelay, settings.reconnectBaseDelay * 2 ^ (attempts' - 1))]_vars

\* C32 (under Spec): the waiter of a request that was sent, whose caller
\* has no answer yet and whose deadline has not passed, is in
\* pendingRequests under the requestId of the message, so a response
\* arriving now finds it.
C32_ResponseFindsWaiter ==
    \A t \in timers :
       (now < t.due /\ ~headersSent(http, t.res))
          => /\ MapHas(pendingRequests, t.requestId)
             /\ pendingRequests[t.requestId].res = t.res

\* C33 (under Spec): no waiter in pendingRequests belongs to a request
\* whose HTTP response has been written.
C33_AnsweredHasNoWaiter ==
    \A id \in DOMAIN pendingRequests : ~headersSent(http, pendingRequests[id].res)

\* C34 (under Spec): a request that fails type validation, validateParams
\* or the check of the required parameters is answered with 400 and leaves
\* pendingRequests, the timers and the messages sent to peers as they were.
C34_RejectedChangesNothing ==
    [][nextRes' # nextRes =>
          \A config \in RouteConfigs, clientId \in TargetIds, sent \in SendOutcomes :
             \A validation \in ValidationOutcomes \ {"ok"}, extra \in buildPendingRequest(config.type) :
                createApiRoute(config, clientId, validation, extra, sent)
                   => /\ http'[nextRes].status = 400
                      /\ pendingRequests' = pendingRequests
                      /\ timers' = timers
                      /\ outbox' = outbox]_vars

\* A request was rejected by validateParams while another request's waiter
\* and timer were in place.
C34_Witness ==
    \E r \in Res :
       /\ http[r].status = 400
       /\ http[r].body = jsonBody(sanitizeResponse(ValidationBody("custom")))
       /\ pendingRequests # <<>>
       /\ timers # {}

\* C35 (under Spec): a message of a connected peer other than the client a
\* waiter is targeted at, carrying the waiter's requestId, leaves the waiter
\* in pendingRequests and writes no HTTP response.
C35_OnlyTargetCompletes ==
    [][\A id \in WaiterIds : \A client \in ClientIds \ {pendingRequests[id].clientId} :
          /\ \A type \in GenericHandlerTypes, data \in GenericMessagesOf(id) :
                GenericResult(type, client, data)
                   => pendingRequests' = pendingRequests /\ http' = http
          /\ \A data \in DownloadMessagesOf(id) :
                DownloadFileResult(client, data)
                   => pendingRequests' = pendingRequests /\ http' = http]_vars

\* A get-sheet-response that carries id and does not fit the waiter under id.
C36_Mismatching(id) ==
    {data \in SheetMessagesOf(id) :
        ~(pendingRequests[id].type = "get-sheet"
          /\ Field(pendingRequests[id], "uuid") = responseUuid(data))}

\* C36 (under SheetSpec): a waiter that a get-sheet-response with another
\* uuid has found and left in pendingRequests (the handler changes nothing,
\* so this is any state with the waiter and a connected peer) is answered
\* later by a correct response or by its timeout: every timer that will
\* remove the waiter answers the waiter's caller.
C36_MismatchLeavesAnswerable ==
    \A id \in WaiterIds :
       (clients # {} /\ C36_Mismatching(id) # {} /\ ~headersSent(http, pendingRequests[id].res))
          => \A t \in timers : t.requestId = id => t.res = pendingRequests[id].res

\* C37 (under PeerSpec): a manager whose isPrimaryGM is false has no
\* socket that is CONNECTING or OPEN.
C37_OnlyPrimaryConnected ==
    ~mgr.isPrimaryGM =>
       \A n \in DOMAIN sockets : sockets[n].readyState \notin {"CONNECTING", "OPEN"}

\* C38 (under PeerSpec): after every step the browser holds at most one
\* reconnect timer and at most one ping interval of the manager; an
\* interval is started by an open event only, and after a close event or a
\* disconnect() call none is active.
C38_OneTimerOneInterval ==
    [][/\ scheduled'.timeouts <= 1
       /\ scheduled'.intervals <= 1
       /\ scheduled'.intervals > scheduled.intervals => \E n \in 1..MaxSockets : SocketOpens(n)
       /\ ( \/ disconnectCalled
            \/ \E n \in 1..MaxSockets, code \in CloseCodes, error \in BOOLEAN :
                  SocketCloses(n, code, error) )
             => scheduled'.intervals = 0]_vars

\* A reconnect timer and a ping interval are both held, with two sockets
\* created: the interval of a socket that opened while a reconnect was
\* scheduled.
C38_Witness ==
    /\ scheduled.timeouts = 1
    /\ scheduled.intervals = 1
    /\ Len(sockets) >= 2

\* C39: after every createChatMessage event the two stores are bounded and
\* free of duplicates: recentRolls
\* holds at most 20 entries and recentChatMessages at most the configured
\* maximum, no two entries of a store share an id, and a createChatMessage
\* event replaces the stored entry of its id in place, or puts the entry of
\* a new id in front and drops the entries at the end that exceed the
\* maximum.
NoSharedId(stored) ==
    \A i, j \in DOMAIN stored : stored[i].v.id = stored[j].v.id => i = j
InPlaceOrInFront(stored, after, entry, max) ==
    IF findIndex(stored, entry) # 0
    THEN after = [stored EXCEPT ![findIndex(stored, entry)] = entry]
    ELSE after = SubSeq(<<entry>> \o stored, 1, Min(Len(stored) + 1, max))
StoresBounded ==
    /\ Len(recentRolls) <= MAX_ROLLS_STORED
    /\ Len(recentChatMessages) <= maxStored(settings)
    /\ NoSharedId(recentRolls)
    /\ NoSharedId(recentChatMessages)
C39_StoresBoundedNoDuplicates ==
    [][\A message \in RepeatedDocuments \cup {NewDocument(FALSE), NewDocument(TRUE)} :
          createChatMessage(message, StoreTime) =>
             /\ StoresBounded'
             /\ IF message.isRoll
                THEN /\ recentChatMessages' = recentChatMessages
                     /\ InPlaceOrInFront(recentRolls, recentRolls', rollData(message, StoreTime),
                                         MAX_ROLLS_STORED)
                ELSE /\ recentRolls' = recentRolls
                     /\ InPlaceOrInFront(recentChatMessages, recentChatMessages',
                                         chatData(message, StoreTime), maxStored(settings))]_vars

\* C40: pendingRequests does not leak: the waiter of every HTTP request
\* that registered one is removed from pendingRequests in the end, whether
\* the handler threw after registering it, the peer answered with a message
\* no handler accepts, or nobody answered.
Waiting(r) == \E id \in DOMAIN pendingRequests : pendingRequests[id].res = r
C40_NoWaiterLeaks ==
    \A r \in 1..MaxReqs : Waiting(r) ~> ~Waiting(r)
\* The handler of a request threw after registering the waiter, no timer
\* was armed, and the waiter is gone after the cleanup age.
C40_Witness ==
    /\ now > MaxAcceptTime + CleanupAge
    /\ \E r \in 1..MaxReqs :
          /\ http[r].status = 500
          /\ http[r].body = jsonBody(sanitizeResponse(
                                ErrorBody("Internal server error during request")))
          /\ ~Waiting(r)
    /\ pendingRequests = <<>>

\* ======================================================================
\* Properties of the headless sessions
\* ======================================================================
\* C31 (under SweepSpec): after a run of cleanupInactiveSessions no entry of
\* apiKeyToSession is idle for more than HEADLESS_SESSION_TIMEOUT, no
\* removed entry's session has a browser in browserSessions, and every
\* entry idle for at most the limit is kept as it was, with its browser.
C31_SweepRemovesIdleOnly ==
    [][cleanupInactiveSessions =>
          /\ \A k \in DOMAIN apiKeyToSession' :
                now - apiKeyToSession'[k].lastActivity <= HEADLESS_SESSION_TIMEOUT
          /\ \A k \in DOMAIN apiKeyToSession \ DOMAIN apiKeyToSession' :
                apiKeyToSession[k].sessionId \notin browserSessions'
          /\ \A k \in DOMAIN apiKeyToSession :
                now - apiKeyToSession[k].lastActivity <= HEADLESS_SESSION_TIMEOUT
                   => /\ k \in DOMAIN apiKeyToSession'
                      /\ apiKeyToSession'[k] = apiKeyToSession[k]
                      /\ apiKeyToSession[k].sessionId \in browserSessions
                            <=> apiKeyToSession[k].sessionId \in browserSessions']_vars

\* A sweep has closed the browser of an idle session and left a session
\* that is idle for exactly the limit, with its browser.
C31_Witness ==
    /\ closedBrowsers # {}
    /\ \E k \in DOMAIN apiKeyToSession :
          /\ now - apiKeyToSession[k].lastActivity = HEADLESS_SESSION_TIMEOUT
          /\ apiKeyToSession[k].sessionId \in browserSessions
====
